---- MODULE Spec2Model ----
(***************************************************************************)
(* A model of rigred/spd_tool: the DDR3 SPD checksum engine                *)
(* (src/ddr3_decoder.py, _crc16_generic .. _detect_base_crc), the patch    *)
(* operation DDR3Decoder.patch and its caller cmd_patch (src/spd_tool.py). *)
(*                                                                         *)
(* An image is a sequence of bytes; the byte at Python offset k is the     *)
(* element k + 1 of the sequence.                                          *)
(***************************************************************************)
EXTENDS Integers, Sequences, FiniteSets, TLC

(***************************************************************************)
(* Python's integer operators on non-negative integers.                    *)
(***************************************************************************)
\* bit i of a
Bit(a, i) == (a \div (2 ^ i)) % 2

\* p & q, p | q and p ^ q for bytes p and q
And8(p, q) ==
    Bit(p, 0) * Bit(q, 0) + 2 * Bit(p, 1) * Bit(q, 1)
    + 4 * Bit(p, 2) * Bit(q, 2) + 8 * Bit(p, 3) * Bit(q, 3)
    + 16 * Bit(p, 4) * Bit(q, 4) + 32 * Bit(p, 5) * Bit(q, 5)
    + 64 * Bit(p, 6) * Bit(q, 6) + 128 * Bit(p, 7) * Bit(q, 7)

Xor8(p, q) ==
    ((Bit(p, 0) + Bit(q, 0)) % 2) + 2 * ((Bit(p, 1) + Bit(q, 1)) % 2)
    + 4 * ((Bit(p, 2) + Bit(q, 2)) % 2) + 8 * ((Bit(p, 3) + Bit(q, 3)) % 2)
    + 16 * ((Bit(p, 4) + Bit(q, 4)) % 2) + 32 * ((Bit(p, 5) + Bit(q, 5)) % 2)
    + 64 * ((Bit(p, 6) + Bit(q, 6)) % 2) + 128 * ((Bit(p, 7) + Bit(q, 7)) % 2)

Or8(p, q) == And8(p, q) + Xor8(p, q)

AndTab == [p \in 0..255 |-> [q \in 0..255 |-> And8(p, q)]]

OrTab == [p \in 0..255 |-> [q \in 0..255 |-> Or8(p, q)]]

XorTab == [p \in 0..255 |-> [q \in 0..255 |-> Xor8(p, q)]]

\* a & b, a | b and a ^ b for operands below 2^24, a byte at a time
BitAnd(a, b) ==
    AndTab[a % 256][b % 256]
    + 256 * AndTab[(a \div 256) % 256][(b \div 256) % 256]
    + 65536 * AndTab[(a \div 65536) % 256][(b \div 65536) % 256]

BitOr(a, b) ==
    OrTab[a % 256][b % 256]
    + 256 * OrTab[(a \div 256) % 256][(b \div 256) % 256]
    + 65536 * OrTab[(a \div 65536) % 256][(b \div 65536) % 256]

BitXor(a, b) ==
    XorTab[a % 256][b % 256]
    + 256 * XorTab[(a \div 256) % 256][(b \div 256) % 256]
    + 65536 * XorTab[(a \div 65536) % 256][(b \div 65536) % 256]

\* a << n
Shl(a, n) == a * (2 ^ n)

\* a >> n
Shr(a, n) == a \div (2 ^ n)

(***************************************************************************)
(* Python's sequence operators: d[k], d[a:b], t[a:b] = v, str.startswith.  *)
(***************************************************************************)
Min(a, b) == IF a < b THEN a ELSE b

Max(a, b) == IF a > b THEN a ELSE b

\* d[k], for 0 <= k < len(d)
At(d, k) == d[k + 1]

\* d[a:b], for 0 <= a and 0 <= b: the bounds are clipped to len(d)
Slice(d, a, b) == SubSeq(d, Min(a, Len(d)) + 1, Min(b, Len(d)))

\* t[a:b] = v on a bytearray: the clipped slice is replaced by all of v,
\* so the length changes when len(v) differs from the slice's.
SliceAssign(t, a, b, v) ==
    LET lo == Min(a, Len(t))
        hi == Max(lo, Min(b, Len(t)))
    IN  SubSeq(t, 1, lo) \o v \o SubSeq(t, hi + 1, Len(t))

\* t[k] = x, for 0 <= k < len(t)
SetAt(t, k, x) == [t EXCEPT ![k + 1] = x]

\* s.startswith(p)
StartsWith(s, p) == Len(s) >= Len(p) /\ SubSeq(s, 1, Len(p)) = p

HexDigits == <<"0", "1", "2", "3", "4", "5", "6", "7",
               "8", "9", "A", "B", "C", "D", "E", "F">>

\* f"{b:02X}"
Hex02(b) ==
    IF b < 256 THEN HexDigits[(b \div 16) + 1] \o HexDigits[(b % 16) + 1]
    ELSE ToString(b)

(***************************************************************************)
(* The registries.                                                         *)
(***************************************************************************)
None == "None"

JEP106_MAP ==
    (<<0, 28>> :> "Mitsubishi") @@
    (<<0, 44>> :> "Micron Technology") @@
    (<<0, 45>> :> "SK Hynix (Hyundai)") @@
    (<<0, 51>> :> "IDT (Integrated Device Technology)") @@
    (<<0, 78>> :> "Samsung") @@
    (<<0, 84>> :> "Hewlett-Packard (HP)") @@
    (<<0, 152>> :> "Kingston") @@
    (<<0, 173>> :> "SK hynix") @@
    (<<0, 206>> :> "Samsung") @@
    (<<0, 254>> :> "ELPIDA") @@
    (<<0, 4>> :> "HP Inc.") @@
    (<<1, 13>> :> "Patriot Scientific") @@
    (<<1, 152>> :> "Kingston") @@
    (<<1, 44>> :> "Micron Technology") @@
    (<<1, 50>> :> "Mushkin Enhanced Memory") @@
    (<<1, 158>> :> "Corsair") @@
    (<<2, 30>> :> "Corsair") @@
    (<<2, 77>> :> "G.Skill Intl") @@
    (<<2, 126>> :> "Elpida (now Micron)") @@
    (<<2, 155>> :> "G.Skill") @@
    (<<2, 158>> :> "Corsair") @@
    (<<3, 2>> :> "Patriot Memory") @@
    (<<3, 27>> :> "Crucial Technology") @@
    (<<3, 75>> :> "A-DATA Technology") @@
    (<<3, 81>> :> "Qimonda") @@
    (<<3, 111>> :> "Team Group Inc.") @@
    (<<4, 51>> :> "IDT (Integrated Device Technology)") @@
    (<<4, 81>> :> "Qimonda") @@
    (<<5, 155>> :> "G.Skill") @@
    (<<16, 51>> :> "IDT (Integrated Device Technology)")

\* name -> (poly, init, refin, refout, xorout), in the dict's iteration order
CRC16_VARIANTS ==
    << [name |-> "XMODEM", poly |-> 4129, init |-> 0,
        refin |-> FALSE, refout |-> FALSE, xorout |-> 0],
       [name |-> "JEDEC_DDR3_STANDARD", poly |-> 32773, init |-> 0,
        refin |-> TRUE, refout |-> TRUE, xorout |-> 0],
       [name |-> "MODBUS", poly |-> 32773, init |-> 65535,
        refin |-> TRUE, refout |-> TRUE, xorout |-> 0],
       [name |-> "X25", poly |-> 4129, init |-> 65535,
        refin |-> TRUE, refout |-> TRUE, xorout |-> 65535],
       [name |-> "KERMIT", poly |-> 4129, init |-> 0,
        refin |-> TRUE, refout |-> TRUE, xorout |-> 0] >>

(***************************************************************************)
(* The checksum engine.                                                    *)
(***************************************************************************)
\* res = 0; for i in range(width): if val & (1 << i): res |= 1 << (width-1-i)
\* (a function, so that each pass works on the value of res)
ReflectLoop[val \in Nat, width \in Nat, i \in Nat, res \in Nat] ==
    IF i >= width THEN res
    ELSE ReflectLoop[val, width, i + 1,
                     IF BitAnd(val, Shl(1, i)) # 0
                     THEN BitOr(res, Shl(1, width - 1 - i))
                     ELSE res]

_reflect_bits(val, width) == ReflectLoop[val, width, 0, 0]

\* _reflect_bits(b, 8) tabulated for the bytes
Reflect8Tab == [b \in 0..255 |-> _reflect_bits(b, 8)]

\* One pass of the inner loop's body:
\*     if reg & (1 << (width - 1)): reg = ((reg << 1) & mask) ^ poly
\*     else: reg = (reg << 1) & mask
CrcBitStep(reg, poly, width) ==
    IF BitAnd(reg, Shl(1, width - 1)) # 0
    THEN BitXor(BitAnd(Shl(reg, 1), Shl(1, width) - 1), poly)
    ELSE BitAnd(Shl(reg, 1), Shl(1, width) - 1)

\* for _ in range(8): the pass above
RECURSIVE CrcBitLoop(_, _, _, _)
CrcBitLoop(reg, poly, width, n) ==
    IF n = 0 THEN reg
    ELSE CrcBitLoop(CrcBitStep(reg, poly, width), poly, width, n - 1)

\* for b in data_iter: reg ^= (b << (width - 8)) & mask, then the eight bit
\* passes. loop[lo, hi, reg] is the register after the bytes at offsets
\* lo..hi-1 when it holds reg before them: the passes over lo..hi-1 are the
\* passes over the first half followed by the passes over the second half.
CrcByteLoop(data, init, poly, refin, width) ==
    LET loop[lo \in Nat, hi \in Nat, reg \in Nat] ==
            IF hi <= lo THEN reg
            ELSE IF hi = lo + 1
            THEN CrcBitLoop(
                   BitXor(reg,
                          BitAnd(Shl(IF refin THEN Reflect8Tab[data[hi]]
                                              ELSE data[hi],
                                     width - 8),
                                 Shl(1, width) - 1)),
                   poly, width, 8)
            ELSE loop[(lo + hi) \div 2, hi,
                      loop[lo, (lo + hi) \div 2, reg]]
    IN loop[0, Len(data), BitAnd(init, Shl(1, width) - 1)]

\* a variant that leaves the register as it is when refout is set
_crc16_generic_no_refout(data, poly, init, refin, refout, xorout, width) ==
    BitXor(CrcByteLoop(data, init, poly, refin, width), xorout)

_crc16_generic(data, poly, init, refin, refout, xorout, width) ==
    BitXor(IF refout
           THEN _reflect_bits(CrcByteLoop(data, init, poly, refin, width), width)
           ELSE CrcByteLoop(data, init, poly, refin, width),
           xorout)

CrcOf(v, data) ==
    _crc16_generic(data, v.poly, v.init, v.refin, v.refout, v.xorout, 16)

\* a variant of the search in which a later match replaces an earlier one
RECURSIVE TryMatchBack(_, _, _)
TryMatchBack(m, data, stored_val) ==
    IF m < 1 THEN None
    ELSE IF CrcOf(CRC16_VARIANTS[m], data) = stored_val
         THEN CRC16_VARIANTS[m].name
         ELSE TryMatchBack(m - 1, data, stored_val)

_try_match_last(data, stored_val) ==
    TryMatchBack(Len(CRC16_VARIANTS), data, stored_val)

\* for name, params in CRC16_VARIANTS.items(): first match, else None
RECURSIVE TryMatchFrom(_, _, _)
TryMatchFrom(i, data, stored_val) ==
    IF i > Len(CRC16_VARIANTS) THEN None
    ELSE IF CrcOf(CRC16_VARIANTS[i], data) = stored_val
         THEN CRC16_VARIANTS[i].name
         ELSE TryMatchFrom(i + 1, data, stored_val)

_try_match_crc16(data, stored_val) == TryMatchFrom(1, data, stored_val)

\* crc16_xmodem of the bus reader: reg ^= (b << 8) & 0xFFFF, then eight
\* times reg = ((reg << 1) ^ 0x1021) & 0xFFFF if reg & 0x8000, else
\* reg = (reg << 1) & 0xFFFF
RECURSIVE XmodemBits(_, _)
XmodemBits(reg, n) ==
    IF n = 0 THEN reg
    ELSE XmodemBits(IF (reg \div 32768) % 2 = 1
                    THEN BitXor(reg * 2, 4129) % 65536
                    ELSE (reg * 2) % 65536,
                    n - 1)

\* for b in data, over the bytes at offsets lo..hi-1: the first half of
\* them, then the second half
crc16_xmodem(data) ==
    LET loop[lo \in Nat, hi \in Nat, reg \in Nat] ==
            IF hi <= lo THEN reg
            ELSE IF hi = lo + 1
            THEN XmodemBits(BitXor(reg, (data[hi] * 256) % 65536), 8)
            ELSE loop[(lo + hi) \div 2, hi, loop[lo, (lo + hi) \div 2, reg]]
    IN  loop[0, Len(data), 0] % 65536

VariantNamed(name) ==
    CHOOSE v \in {CRC16_VARIANTS[i] : i \in 1..Len(CRC16_VARIANTS)} :
        v.name = name

_compute_crc16_variant(name, data) == CrcOf(VariantNamed(name), data)

\* a variant of the window choice with the two windows exchanged
_get_crc_coverage_swapped(selfdata, declared) ==
    LET end == IF BitAnd(At(selfdata, 0), 128) = 0 THEN 116 ELSE 125
    IN  IF declared THEN <<0, end>>
        ELSE <<0, IF end = 125 THEN 116 ELSE 125>>

\* the decoder's image selfdata decides the window
_get_crc_coverage(selfdata, declared) ==
    LET end == IF BitAnd(At(selfdata, 0), 128) = 0 THEN 125 ELSE 116
    IN  IF declared THEN <<0, end>>
        ELSE <<0, IF end = 125 THEN 116 ELSE 125>>

_detect_base_crc(selfdata) ==
    LET lsb == At(selfdata, 126)
        msb == At(selfdata, 127)
        stored_val == BitOr(Shl(msb, 8), lsb)
        cov == _get_crc_coverage(selfdata, TRUE)
        declared_name ==
            _try_match_crc16(Slice(selfdata, cov[1], cov[2] + 1), stored_val)
        alt == _get_crc_coverage(selfdata, FALSE)
        alternate_name ==
            _try_match_crc16(Slice(selfdata, alt[1], alt[2] + 1), stored_val)
    IN  IF declared_name # None
        THEN [status |-> "VALID", stored |-> stored_val,
              computed |-> stored_val,
              coverage |-> "0.." \o ToString(cov[2]),
              variant |-> declared_name, coverage_match |-> TRUE]
        ELSE IF alternate_name # None
        THEN [status |-> "VALID (alternate coverage)", stored |-> stored_val,
              computed |-> stored_val,
              coverage |-> "0.." \o ToString(alt[2]),
              variant |-> alternate_name, coverage_match |-> FALSE]
        ELSE [status |-> "INVALID", stored |-> stored_val,
              computed |-> _compute_crc16_variant(
                               "XMODEM", Slice(selfdata, cov[1], cov[2] + 1)),
              coverage |-> "0.." \o ToString(cov[2]),
              variant |-> "XMODEM*guess", coverage_match |-> FALSE]

_decode_jep106(lsb, msb) ==
    LET bank == BitAnd(lsb, 127)
        code == msb
        tail == " (Bank " \o ToString(bank) \o ", Code 0x" \o Hex02(code) \o ")"
    IN  IF <<bank, code>> \in DOMAIN JEP106_MAP
        THEN JEP106_MAP[<<bank, code>>] \o tail
        ELSE "Unknown" \o tail

\* the window is the decoder's (selfdata), the bytes compared are the arguments'
_needs_base_crc_update(selfdata, before, after) ==
    LET end == _get_crc_coverage(selfdata, TRUE)[2]
    IN  Slice(before, 0, end + 1) # Slice(after, 0, end + 1)

\* a variant of the rewrite that stores the high byte first
_rewrite_base_crc_swapped(selfdata, spd_mut) ==
    LET cov  == _get_crc_coverage(selfdata, TRUE)
        calc == _compute_crc16_variant("XMODEM",
                                       Slice(spd_mut, cov[1], cov[2] + 1))
    IN  SetAt(SetAt(spd_mut, 127, BitAnd(calc, 255)),
              126, BitAnd(Shr(calc, 8), 255))

\* the window is the decoder's (selfdata), the bytes summed are spd_mut's
_rewrite_base_crc(selfdata, spd_mut) ==
    LET cov  == _get_crc_coverage(selfdata, TRUE)
        calc == _compute_crc16_variant("XMODEM",
                                       Slice(spd_mut, cov[1], cov[2] + 1))
    IN  SetAt(SetAt(spd_mut, 126, BitAnd(calc, 255)),
              127, BitAnd(Shr(calc, 8), 255))

(***************************************************************************)
(* The patch request: parsing of a --copy-range token START:END.           *)
(***************************************************************************)
\* the digit a character stands for in the given base, or -1
DigitOf(c, base) ==
    LET dec == "0123456789"
        low == "abcdef"
        upp == "ABCDEF"
        hit(str) == {j \in 1..Len(str) : SubSeq(str, j, j) = c}
    IN  IF hit(dec) # {} THEN (CHOOSE j \in hit(dec) : TRUE) - 1
        ELSE IF base = 16 /\ hit(low) # {} THEN (CHOOSE j \in hit(low) : TRUE) + 9
        ELSE IF base = 16 /\ hit(upp) # {} THEN (CHOOSE j \in hit(upp) : TRUE) + 9
        ELSE -1

\* the value of a non-empty digit string (-1 when a character is no digit)
RECURSIVE DigitsValue(_, _)
DigitsValue(str, base) ==
    IF Len(str) = 0 THEN 0
    ELSE LET last == DigitOf(SubSeq(str, Len(str), Len(str)), base)
             rest == DigitsValue(SubSeq(str, 1, Len(str) - 1), base)
         IN  IF last < 0 \/ rest < 0 THEN -1 ELSE rest * base + last

\* int(str, 0) for the literals a range token is written with: an optional
\* sign, then a decimal literal (no leading zero unless it is all zeros) or a
\* 0x/0X hexadecimal literal. [ok |-> FALSE] stands for ValueError.
IntBase0(str) ==
    LET neg  == Len(str) > 0 /\ SubSeq(str, 1, 1) = "-"
        body == IF neg \/ (Len(str) > 0 /\ SubSeq(str, 1, 1) = "+")
                THEN SubSeq(str, 2, Len(str)) ELSE str
        hex  == Len(body) > 2 /\ SubSeq(body, 1, 2) \in {"0x", "0X"}
        digs == IF hex THEN SubSeq(body, 3, Len(body)) ELSE body
        val  == DigitsValue(digs, IF hex THEN 16 ELSE 10)
        lead == ~hex /\ Len(digs) > 1 /\ SubSeq(digs, 1, 1) = "0" /\ val # 0
    IN  IF Len(digs) = 0 \/ val < 0 \/ lead
        THEN [ok |-> FALSE, val |-> 0]
        ELSE [ok |-> TRUE, val |-> IF neg THEN 0 - val ELSE val]

\* r.split(":")
RECURSIVE SplitColon(_)
SplitColon(r) ==
    LET cut == {j \in 1..Len(r) : SubSeq(r, j, j) = ":"}
    IN  IF cut = {} THEN <<r>>
        ELSE LET j == CHOOSE m \in cut : \A o \in cut : m <= o
             IN  <<SubSeq(r, 1, j - 1)>> \o SplitColon(SubSeq(r, j + 1, Len(r)))

\* a variant of the bounds test without its upper bound
ParseRangeNoUpper(r) ==
    LET parts == SplitColon(r)
        lo == IntBase0(parts[1])
        hi == IntBase0(parts[2])
    IN  IF Len(parts) # 2 \/ ~lo.ok \/ ~hi.ok
        THEN [kind |-> "format", start |-> 0, end |-> 0]
        ELSE IF ~(0 <= lo.val /\ lo.val <= hi.val)
        THEN [kind |-> "range", start |-> lo.val, end |-> hi.val]
        ELSE [kind |-> "ok", start |-> lo.val, end |-> hi.val]

\* lines 132-136 for one token: "format" when the try block raises, "range"
\* when the bounds test fails, else "ok" with start and end
ParseRange(r) ==
    LET parts == SplitColon(r)
        lo == IntBase0(parts[1])
        hi == IntBase0(parts[2])
    IN  IF Len(parts) # 2 \/ ~lo.ok \/ ~hi.ok
        THEN [kind |-> "format", start |-> 0, end |-> 0]
        ELSE IF ~(0 <= lo.val /\ lo.val <= hi.val /\ hi.val < 256)
        THEN [kind |-> "range", start |-> lo.val, end |-> hi.val]
        ELSE [kind |-> "ok", start |-> lo.val, end |-> hi.val]

(***************************************************************************)
(* The images and requests the commands are run on.                        *)
(***************************************************************************)
\* img with the bytes at the offsets in DOMAIN upd replaced
WithBytes(img, upd) ==
    [j \in 1..Len(img) |-> IF (j - 1) \in DOMAIN upd THEN upd[j - 1] ELSE img[j]]

\* size bytes of filler: the byte at offset o is (o * step + first) % 256
Filler(size, step, first) == [j \in 1..size |-> ((j - 1) * step + first) % 256]

\* SPD.__init__ keeps the first 256 bytes of a file of 256 or more and the
\* first 128 of a shorter one; byte 2 (11: DDR3, 4: SDR) chooses the decoder.
TargetIds == {"hp_inc", "hp_legacy", "samsung"}

\* DDR3 targets: byte 0 bit 7 (the coverage flag) clear or set, byte 3 the
\* module type, bytes 117..118 the manufacturer id
TargetImage(id) ==
    CASE id = "hp_inc" ->
           WithBytes(Filler(256, 7, 3),
                     (0 :> 18) @@ (2 :> 11) @@ (3 :> 2) @@ (117 :> 128) @@ (118 :> 4))
      [] id = "hp_legacy" ->
           WithBytes(Filler(256, 5, 9),
                     (0 :> 18) @@ (2 :> 11) @@ (3 :> 3) @@ (117 :> 128) @@ (118 :> 84))
      [] OTHER ->
           WithBytes(Filler(256, 11, 1),
                     (0 :> 146) @@ (2 :> 11) @@ (3 :> 3) @@ (117 :> 128) @@ (118 :> 206))

SourceIds == {"ddr3", "sdr128"}

\* a 256-byte DDR3 source carrying a tag block at 176..183, and a 128-byte
\* SDR source
SourceImage(id) ==
    CASE id = "ddr3" ->
           WithBytes(Filler(256, 13, 5),
                     (0 :> 146) @@ (2 :> 11) @@ (3 :> 3) @@ (117 :> 128) @@ (118 :> 4)
                     @@ (176 :> 72) @@ (177 :> 80) @@ (178 :> 84) @@ (179 :> 0)
                     @@ (180 :> 164) @@ (181 :> 1) @@ (182 :> 133) @@ (183 :> 232))
      [] OTHER ->
           WithBytes(Filler(128, 3, 17), (2 :> 4) @@ (3 :> 128))

\* --copy-range tokens: inside the image (decimal and hexadecimal), out of
\* bounds, inverted, malformed
RangeTokens == {"0:3", "0x75:0x76", "300:310", "5:3", "abc"}

\* the longest --copy-range list
MaxRanges == 2

RangeLists == UNION {[1..m -> RangeTokens] : m \in 0..MaxRanges}

\* --set-hpt after bytes.fromhex: absent or empty (both falsy), four bytes,
\* three bytes
HptValues == {<<>>, <<164, 1, 133, 232>>, <<1, 2, 3>>}

Requests ==
    [copy_vendor : BOOLEAN, copy_hpt : BOOLEAN, set_hpt : HptValues,
     copy_mfgid : BOOLEAN, copy_partnum : BOOLEAN, copy_range : RangeLists,
     force : BOOLEAN]

\* the objects the names of patch() are bound to
ObjSelf == "self.data"

ObjSource == "source_data"

ObjNew == "bytearray"

(***************************************************************************)
(* DDR3Decoder.patch, statement by statement.                              *)
(***************************************************************************)
NoException == [type |-> "", arg |-> ""]

SystemExit(msg) == [type |-> "SystemExit", arg |-> msg]

ValueError(msg) == [type |-> "ValueError", arg |-> msg]

TypeError(msg) == [type |-> "TypeError", arg |-> msg]

_ddr3_module_type_name(v) ==
    CASE v = 0 -> "Undefined" [] v = 1 -> "RDIMM" [] v = 2 -> "UDIMM"
      [] v = 3 -> "SO-DIMM" [] v = 4 -> "Micro-DIMM" [] v = 8 -> "Mini-RDIMM"
      [] v = 9 -> "Mini-UDIMM" [] v = 11 -> "LRDIMM"
      [] OTHER -> "Unknown (0x" \o Hex02(v) \o ")"

\* a variant of line 118 that binds target to self.data itself
SameObject(obj) == obj

\* line 118, target = bytearray(self.data): the object the name target is
\* bound to, a new one
BytearrayOf(obj) == ObjNew

\* line 121
ModuleTypeWarning(src, tgt) ==
    "[WARN] Module types differ: " \o _ddr3_module_type_name(At(src, 3))
    \o " vs " \o _ddr3_module_type_name(At(tgt, 3))

\* a variant of the guard that leaves --set-hpt out
HptGuardCopyOnly(req, tgt) ==
    /\ req.copy_hpt
    /\ ~StartsWith(_decode_jep106(At(tgt, 117), At(tgt, 118)), "HP")
    /\ ~req.force

\* line 122: the test that guards the tag block. args.set_hpt is truthy when
\* it holds at least one byte.
HptGuardRejects(req, tgt) ==
    /\ req.copy_hpt \/ Len(req.set_hpt) > 0
    /\ ~StartsWith(_decode_jep106(At(tgt, 117), At(tgt, 118)), "HP")
    /\ ~req.force

HptGuardMessage == "[ERROR] Target is not an HP module. Use --force to apply HPT block."

\* lines 839-841
_set_hpt_code(spd_mut, code) ==
    IF Len(code) # 4
    THEN [raised |-> ValueError("HPT code must be 4 bytes"), data |-> spd_mut]
    ELSE [raised |-> NoException,
          data |-> SliceAssign(SliceAssign(spd_mut, 176, 180, <<72, 80, 84, 0>>),
                               180, 184, code)]

\* lines 125-130: the named copies in statement order; the tag length check
\* raises after the two block copies and before the id and part-number copies
NamedCopies(req, tgt, src) ==
    LET t1 == IF req.copy_vendor
              THEN SliceAssign(tgt, 176, 256, Slice(src, 176, 256)) ELSE tgt
        t2 == IF req.copy_hpt
              THEN SliceAssign(t1, 176, 184, Slice(src, 176, 184)) ELSE t1
        h  == IF Len(req.set_hpt) > 0 THEN _set_hpt_code(t2, req.set_hpt)
              ELSE [raised |-> NoException, data |-> t2]
        t4 == IF req.copy_mfgid
              THEN SliceAssign(h.data, 117, 119, Slice(src, 117, 119)) ELSE h.data
        t5 == IF req.copy_partnum
              THEN SliceAssign(t4, 128, 146, Slice(src, 128, 146)) ELSE t4
    IN  IF h.raised # NoException
        THEN [raised |-> h.raised, data |-> t2,
              changed |-> req.copy_vendor \/ req.copy_hpt]
        ELSE [raised |-> NoException, data |-> t5,
              changed |-> \/ req.copy_vendor \/ req.copy_hpt
                          \/ Len(req.set_hpt) > 0
                          \/ req.copy_mfgid \/ req.copy_partnum]

\* a variant of line 139 for a flag that starts out set
NothingSelectedNever(chg) == FALSE

\* line 139: if not changed
NothingSelected(chg) == ~chg

\* def _detect_base_crc(self), line 813: the positional parameters it takes
DetectParams == 1

\* self._detect_base_crc(target), line 146: the positional arguments the call
\* passes, self and target
DetectArgsPassed == 2

DetectCallError ==
    TypeError("DDR3Decoder._detect_base_crc() takes " \o ToString(DetectParams)
              \o " positional argument but " \o ToString(DetectArgsPassed)
              \o " were given")

(***************************************************************************)
(* The images checksum detection and rewriting are run on.                 *)
(***************************************************************************)
\* img with val stored little-endian at bytes 126..127
StoreLE(img, val) == SetAt(SetAt(img, 126, val % 256), 127, val \div 256)

\* a blank image and a filled one, each with the coverage flag clear and set
CrcBases ==
    {WithBytes([j \in 1..256 |-> 0], 0 :> flag) : flag \in {0, 128}}
    \cup {WithBytes(Filler(256, 7, 3), (0 :> flag) @@ (2 :> 11)) : flag \in {18, 146}}

\* each base authored with each registered variant over bytes 0..125 and over
\* bytes 0..116, and with a value no variant yields
CrcImages ==
    {StoreLE(base, CrcOf(CRC16_VARIANTS[m], SubSeq(base, 1, last + 1))) :
        base \in CrcBases, m \in 1..Len(CRC16_VARIANTS), last \in {116, 125}}
    \cup {StoreLE(base, 48879) : base \in CrcBases}

\* the most rewrites of one image
MaxRewrites == 2

NoResult == [status |-> "none"]

(***************************************************************************)
(* Python's float: IEEE 754 binary64 with round-to-nearest-even.  A float  *)
(* is [sg, m, ex], of value sg * m * 2^ex, where the significand m is a    *)
(* natural number of exactly 53 bits held as a sequence of 15-bit limbs,   *)
(* least significant first (<<>> is zero).  The decoders stay far from     *)
(* the subnormal and the overflow range; the sign of a zero is not kept.   *)
(***************************************************************************)
LimbBits == 15

LimbBase == 32768

SignificandBits == 53

\* limb i of u, counted from 1; 0 beyond the length of u
Limb(u, i) == IF i <= Len(u) THEN u[i] ELSE 0

\* u without its leading zero limbs
BnNorm(u) ==
    LET nz == {i \in 1..Len(u) : u[i] # 0}
    IN  IF nz = {} THEN <<>>
        ELSE SubSeq(u, 1, CHOOSE i \in nz : \A j \in nz : j <= i)

\* the limbs of a natural number n below 2^31
BnOf(n) ==
    BnNorm(<<n % LimbBase, (n \div LimbBase) % LimbBase,
             n \div (LimbBase * LimbBase)>>)

\* the natural number of limbs u, for u below 2^31
BnToNat(u) ==
    Limb(u, 1) + LimbBase * Limb(u, 2) + LimbBase * LimbBase * Limb(u, 3)

\* -1, 0 or 1 as u < v, u = v or u > v
BnCmp(u, v) ==
    IF Len(u) # Len(v) THEN (IF Len(u) < Len(v) THEN -1 ELSE 1)
    ELSE LET df == {i \in 1..Len(u) : u[i] # v[i]}
         IN  IF df = {} THEN 0
             ELSE LET i == CHOOSE k \in df : \A j \in df : j <= k
                  IN  IF u[i] < v[i] THEN -1 ELSE 1

BnAdd(u, v) ==
    LET n == Max(Len(u), Len(v))
        c[i \in Nat] ==
            IF i = 0 THEN 0
            ELSE (Limb(u, i) + Limb(v, i) + c[i - 1]) \div LimbBase
    IN  BnNorm([i \in 1..(n + 1) |->
                  IF i <= n THEN (Limb(u, i) + Limb(v, i) + c[i - 1]) % LimbBase
                  ELSE c[n]])

\* u - v, for u >= v
BnSub(u, v) ==
    LET n == Len(u)
        b[i \in Nat] ==
            IF i = 0 THEN 0
            ELSE IF u[i] - Limb(v, i) - b[i - 1] < 0 THEN 1 ELSE 0
    IN  BnNorm([i \in 1..n |->
                  (u[i] - Limb(v, i) - b[i - 1] + LimbBase) % LimbBase])

\* u * k, for 0 <= k < 2^16
BnMulSmall(u, k) ==
    LET n == Len(u)
        c[i \in Nat] ==
            IF i = 0 THEN 0 ELSE (u[i] * k + c[i - 1]) \div LimbBase
    IN  BnNorm([i \in 1..(n + 2) |->
                  IF i <= n THEN (u[i] * k + c[i - 1]) % LimbBase
                  ELSE IF i = n + 1 THEN c[n] % LimbBase
                  ELSE c[n] \div LimbBase])

\* u * 2^n
BnShl(u, n) ==
    IF u = <<>> THEN <<>>
    ELSE [i \in 1..(n \div LimbBits) |-> 0] \o BnMulSmall(u, 2 ^ (n % LimbBits))

\* u \div 2^n
BnShr(u, n) ==
    LET q == n \div LimbBits
        r == n % LimbBits
        w == SubSeq(u, q + 1, Len(u))
    IN  BnNorm([i \in 1..Len(w) |->
                  (w[i] \div (2 ^ r)) + (Limb(w, i + 1) % (2 ^ r)) * (2 ^ (LimbBits - r))])

\* u % 2^n
BnLowBits(u, n) ==
    LET q == n \div LimbBits
        r == n % LimbBits
    IN  BnNorm([i \in 1..Min(Len(u), q + 1) |->
                  IF i <= q THEN u[i] ELSE u[i] % (2 ^ r)])

\* the number of bits of u
BnBitLen(u) ==
    IF u = <<>> THEN 0
    ELSE LimbBits * (Len(u) - 1)
         + (CHOOSE b \in 1..LimbBits :
               2 ^ (b - 1) <= u[Len(u)] /\ u[Len(u)] < 2 ^ b)

BnOdd(u) == Limb(u, 1) % 2 = 1

\* the natural number whose bits, most significant first, are bits
BnOfBits(bits) ==
    LET n == Len(bits)
        lsb(k) == IF k < n THEN bits[n - k] ELSE 0
        RECURSIVE limb(_, _)
        limb(i, t) ==
            IF t = LimbBits THEN 0
            ELSE lsb(LimbBits * (i - 1) + t) * (2 ^ t) + limb(i, t + 1)
    IN  BnNorm([i \in 1..((n + LimbBits - 1) \div LimbBits) |-> limb(i, 0)])

FZero == [sg |-> 1, m |-> <<>>, ex |-> 0]

\* the float nearest to sg * (num + f) * 2^ex, ties to even, where 0 < f < 1
\* when sticky and f = 0 otherwise; sticky only with num of 54 bits or more
\* the significand m1 of at most 54 bits brought back to 53
FRoundCarry(sg, m1, ex) ==
    IF BnBitLen(m1) > SignificandBits
    THEN [sg |-> sg, m |-> BnShr(m1, 1), ex |-> ex + 1]
    ELSE [sg |-> sg, m |-> m1, ex |-> ex]

\* q is num without its sh low bits, c compares these low bits to one half
FRoundUp(sg, q, c, sticky, ex) ==
    FRoundCarry(sg,
                IF c = 1 \/ (c = 0 /\ (sticky \/ BnOdd(q)))
                THEN BnAdd(q, BnOf(1)) ELSE q,
                ex)

\* FRound for a num of len bits, len > 0
FRoundBits(sg, num, sticky, ex, len) ==
    IF len <= SignificandBits
    THEN [sg |-> sg, m |-> BnShl(num, SignificandBits - len),
          ex |-> ex - (SignificandBits - len)]
    ELSE FRoundUp(sg, BnShr(num, len - SignificandBits),
                  BnCmp(BnLowBits(num, len - SignificandBits),
                        BnShl(BnOf(1), len - SignificandBits - 1)),
                  sticky, ex + (len - SignificandBits))

FRound(sg, num, sticky, ex) ==
    IF num = <<>> THEN FZero
    ELSE FRoundBits(sg, num, sticky, ex, BnBitLen(num))

\* float(n), for an integer n with |n| < 2^31
FOfInt(n) ==
    FRound(IF n < 0 THEN -1 ELSE 1, BnOf(IF n < 0 THEN 0 - n ELSE n), FALSE, 0)

\* k * x, for an integer k with |k| < 2^16 and a float x
FMulInt(k, x) ==
    FRound(IF k < 0 THEN 0 - x.sg ELSE x.sg,
           BnMulSmall(x.m, IF k < 0 THEN 0 - k ELSE k), FALSE, x.ex)

\* x + y
\* the sum of xsg * a * 2^ex and ysg * b * 2^ex, where c compares a to b
FAddAligned(xsg, a, ysg, b, c, ex) ==
    IF xsg # ysg /\ c = 0 THEN FZero
    ELSE FRound(IF xsg = ysg \/ c = 1 THEN xsg ELSE ysg,
                IF xsg = ysg THEN BnAdd(a, b)
                ELSE IF c = 1 THEN BnSub(a, b) ELSE BnSub(b, a),
                FALSE, ex)

\* x + y for nonzero x and y, the significands a and b at the exponent ex
FAddAt(x, a, y, b, ex) == FAddAligned(x.sg, a, y.sg, b, BnCmp(a, b), ex)

\* x + y for nonzero x and y, ex the lower of the two exponents
FAddFrom(x, y, ex) ==
    FAddAt(x, BnShl(x.m, x.ex - ex), y, BnShl(y.m, y.ex - ex), ex)

FAdd(x, y) ==
    IF x.m = <<>> THEN y
    ELSE IF y.m = <<>> THEN x
    ELSE FAddFrom(x, y, Min(x.ex, y.ex))

QuotientBits == 56

\* x / y, for y # 0: the long division of x.m * 2^QuotientBits by y.m, one
\* quotient bit for each i in lo+1..hi
\* one step of the long division by v: the remainder r2 already doubled
DivStep(r2, q, v, ge) ==
    IF ge THEN [r |-> BnSub(r2, v), q |-> Append(q, 1)]
    ELSE [r |-> r2, q |-> Append(q, 0)]

\* the float of the quotient bits fin.q and the remainder fin.r
FDivRound(x, y, fin) ==
    FRound(x.sg * y.sg, BnOfBits(fin.q), fin.r # <<>>, x.ex - y.ex - QuotientBits)

FDiv(x, y) ==
    IF x.m = <<>> THEN FZero
    ELSE LET step(r2, q) == DivStep(r2, q, y.m, BnCmp(r2, y.m) >= 0)
             loop[lo \in Nat, hi \in Nat, r \in Seq(Nat), q \in Seq(Nat)] ==
                 IF hi <= lo THEN [r |-> r, q |-> q]
                 ELSE IF hi = lo + 1 THEN step(BnMulSmall(r, 2), q)
                 ELSE LET half == loop[lo, (lo + hi) \div 2, r, q]
                      IN  loop[(lo + hi) \div 2, hi, half.r, half.q]
         IN  FDivRound(x, y,
                       IF BnCmp(x.m, y.m) >= 0
                       THEN loop[0, QuotientBits, BnSub(x.m, y.m), <<1>>]
                       ELSE loop[0, QuotientBits, x.m, <<0>>])

\* x > 0 and x <= 0
FPositive(x) == x.m # <<>> /\ x.sg = 1

\* |x| split at the binary point: whole part, and the fraction compared to 1/2
\* (-2: no fraction, -1: below, 0: equal, 1: above)
FSplitLow(x, low) ==
    [whole |-> BnShr(x.m, 0 - x.ex),
     frac  |-> IF low = <<>> THEN -2
               ELSE BnCmp(low, BnShl(BnOf(1), 0 - x.ex - 1))]

FSplit(x) ==
    IF x.ex >= 0 THEN [whole |-> BnShl(x.m, x.ex), frac |-> -2]
    ELSE FSplitLow(x, BnLowBits(x.m, 0 - x.ex))

\* math.ceil(x), for |x| < 2^31 - 1
FCeilOf(sg, s) ==
    IF sg = 1 THEN BnToNat(s.whole) + (IF s.frac = -2 THEN 0 ELSE 1)
    ELSE 0 - BnToNat(s.whole)

FCeil(x) == FCeilOf(x.sg, FSplit(x))

\* |x| rounded to an integer, ties to even
FNearestOf(s) ==
    IF s.frac = 1 \/ (s.frac = 0 /\ BnOdd(s.whole))
    THEN BnAdd(s.whole, BnOf(1)) ELSE s.whole

FNearest(x) == FNearestOf(FSplit(x))

\* round(x), for |x| < 2^31 - 1
FRoundInt(x) == x.sg * BnToNat(FNearest(x))

\* u * 10^nd
RECURSIVE BnMulPow10(_, _)
BnMulPow10(u, nd) == IF nd = 0 THEN u ELSE BnMulPow10(BnMulSmall(u, 10), nd - 1)

\* round(x, nd): the float nearest to the decimal of nd places nearest to x,
\* ties to even, for 10^nd below 2^31
FRoundDigits(x, nd) ==
    FDiv(FRound(x.sg,
                FNearest([sg |-> 1, m |-> BnMulPow10(x.m, nd), ex |-> x.ex]),
                FALSE, 0),
         FOfInt(10 ^ nd))

\* -1, 0 or 1 as k * x < y, k * x = y or k * x > y, exactly, for an integer
\* k with |k| < 2^16
\* the comparison of sa * a to sb * b, where sa is the sign of a or 0
SignedCmp(sa, a, sb, b) ==
    IF sa # sb THEN (IF sa < sb THEN -1 ELSE 1)
    ELSE IF sa = 0 THEN 0
    ELSE sa * BnCmp(a, b)

\* the comparison of ksg * a to ysg * b
AlignedCmp(ksg, a, ysg, b) ==
    SignedCmp(IF a = <<>> THEN 0 ELSE ksg, a, IF b = <<>> THEN 0 ELSE ysg, b)

ExactCmpAt(k, x, y, ex) ==
    AlignedCmp(IF k < 0 THEN 0 - x.sg ELSE x.sg,
               BnShl(BnMulSmall(x.m, IF k < 0 THEN 0 - k ELSE k), x.ex - ex),
               y.sg, BnShl(y.m, y.ex - ex))

ExactCmp(k, x, y) == ExactCmpAt(k, x, y, Min(x.ex, y.ex))

(***************************************************************************)
(* DDR3Decoder._decode_timings and _calculate_jedec_downbins               *)
(* (src/ddr3_decoder.py).  d is self.data.                                 *)
(***************************************************************************)
_s8(b) == IF b > 127 THEN b - 256 ELSE b

\* v or 1
OrOne(v) == IF v = 0 THEN 1 ELSE v

\* the literal 0.001
Milli == FDiv(FOfInt(1), FOfInt(1000))

\* int(x): the integer part of x, for |x| < 2^31 - 1
FTrunc(x) == x.sg * BnToNat(FSplit(x).whole)

mtb_ns(d) == FDiv(FOfInt(OrOne(At(d, 10))), FOfInt(OrOne(At(d, 11))))

ftb_div_ps(d) == At(d, 9) % 16

ftb_ns(d) ==
    IF ftb_div_ps(d) # 0
    THEN FDiv(FDiv(FOfInt((At(d, 9) \div 16) % 16), FOfInt(OrOne(ftb_div_ps(d)))),
              FOfInt(1000))
    ELSE Milli

\* the local function mtb_ftb, given the two timebases
mtb_ftb(d, mtb, ftb, mtb_raw, ftb_idx) ==
    FAdd(FMulInt(mtb_raw, mtb), FMulInt(_s8(At(d, ftb_idx)), ftb))

\* the seven minimum timings in ns with the timebases mtb and ftb
TimingsMinNsAt(d, mtb, ftb) ==
    [tCKmin  |-> mtb_ftb(d, mtb, ftb, At(d, 12), 34),
     tAAmin  |-> mtb_ftb(d, mtb, ftb, At(d, 16), 35),
     tRCDmin |-> mtb_ftb(d, mtb, ftb, At(d, 18), 36),
     tRPmin  |-> mtb_ftb(d, mtb, ftb, At(d, 20), 37),
     tRASmin |-> FMulInt((At(d, 21) % 16) * 256 + At(d, 22), mtb),
     tRCmin  |-> FAdd(FMulInt((At(d, 21) \div 16) * 256 + At(d, 23), mtb),
                      FMulInt(_s8(At(d, 38)), ftb)),
     tRFCmin |-> FMulInt(At(d, 25) * 256 + At(d, 24), mtb)]

\* the seven minimum timings in ns, before they are rounded for the document
TimingsMinNs(d) == TimingsMinNsAt(d, mtb_ns(d), ftb_ns(d))

\* math.ceil(ns_val / tck) if tck > 0 else 0
CeilClocks(ns_val, tck) == IF FPositive(tck) THEN FCeil(FDiv(ns_val, tck)) ELSE 0

\* int(round(2000.0 / tck)) if tck > 0 else 0
RateOf(tck) == IF FPositive(tck) THEN FRoundInt(FDiv(FOfInt(2000), tck)) ELSE 0

\* the dictionary returned, line 427, for the minimum timings t and the
\* CAS latency bits
TimingsDocument(t, cl_bits) ==
    [timings_ns |->
         [tCKmin |-> FRoundDigits(t.tCKmin, 3), tAAmin |-> FRoundDigits(t.tAAmin, 3),
          tRCDmin |-> FRoundDigits(t.tRCDmin, 3), tRPmin |-> FRoundDigits(t.tRPmin, 3),
          tRASmin |-> FRoundDigits(t.tRASmin, 3), tRCmin |-> FRoundDigits(t.tRCmin, 3),
          tRFCmin |-> FRoundDigits(t.tRFCmin, 3)],
     timings_clocks |->
         [CL |-> CeilClocks(t.tAAmin, t.tCKmin), tRCD |-> CeilClocks(t.tRCDmin, t.tCKmin),
          tRP |-> CeilClocks(t.tRPmin, t.tCKmin), tRAS |-> CeilClocks(t.tRASmin, t.tCKmin)],
     cas_latencies_supported |->
         SelectSeq([j \in 1..15 |-> j + 3], LAMBDA cl : Bit(cl_bits, cl - 4) # 0),
     max_data_rate_MTps |-> RateOf(t.tCKmin)]

_decode_timings(d) == TimingsDocument(TimingsMinNs(d), At(d, 15) * 256 + At(d, 14))

\* the dict jedec_speeds, in its order
jedec_speeds ==
    <<[speed |-> 800,  tck |-> FDiv(FOfInt(25), FOfInt(10))],
      [speed |-> 1066, tck |-> FDiv(FOfInt(1875), FOfInt(1000))],
      [speed |-> 1333, tck |-> FDiv(FOfInt(15), FOfInt(10))],
      [speed |-> 1600, tck |-> FDiv(FOfInt(125), FOfInt(100))],
      [speed |-> 1866, tck |-> FDiv(FOfInt(107), FOfInt(100))],
      [speed |-> 2133, tck |-> FDiv(FOfInt(937), FOfInt(1000))]>>

\* one entry of the down-bin list
DownbinEntry(timings_ns, bin) ==
    [speed   |-> "DDR3-" \o ToString(bin.speed),
     timings |-> ToString(FCeil(FDiv(timings_ns.tAAmin, bin.tck))) \o "-"
                 \o ToString(FCeil(FDiv(timings_ns.tRCDmin, bin.tck))) \o "-"
                 \o ToString(FCeil(FDiv(timings_ns.tRPmin, bin.tck))) \o "-"
                 \o ToString(FCeil(FDiv(timings_ns.tRASmin, bin.tck)))]

\* d[6] & 0b010: 1.35V is among the voltages _decode_general lists
LowVoltage(d) == Bit(At(d, 6), 1) # 0

\* the entries of the reference speeds in bins, in their order
DownbinList(timings_ns, bins) ==
    [j \in 1..Len(bins) |-> DownbinEntry(timings_ns, bins[j])]

\* f"PC3{voltage_suffix}-{bandwidth}"
StandardName(d, max_rate) ==
    "PC3" \o (IF LowVoltage(d) THEN "L" ELSE "") \o "-"
    \o ToString(FTrunc(FDiv(FOfInt(max_rate * 8), FOfInt(100))) * 100)

\* a variant that also lists a reference speed equal to the native rate
_calculate_jedec_downbins_inclusive(d, timings_ns, max_rate) ==
    [jedec_downbins |->
         DownbinList(timings_ns,
                     SelectSeq(jedec_speeds, LAMBDA bin : bin.speed <= max_rate)),
     jedec_standard_name |-> StandardName(d, max_rate)]

_calculate_jedec_downbins(d, timings_ns, max_rate) ==
    [jedec_downbins |->
         DownbinList(timings_ns,
                     SelectSeq(jedec_speeds, LAMBDA bin : bin.speed < max_rate)),
     jedec_standard_name |-> StandardName(d, max_rate)]

(***************************************************************************)
(* decode_xmp (src/ddr3_xmp_decoder.py).                                   *)
(***************************************************************************)
\* bits(v, hi, lo)
bits(v, hi, lo) == (v \div (2 ^ lo)) % (2 ^ (hi - lo + 1))

\* mtb_ns_from(dd_off, dv_off)
mtb_ns_from(data, dd_off, dv_off) ==
    IF At(data, dv_off) = 0
    THEN FDiv(FOfInt(OrOne(At(data, 10))), FOfInt(OrOne(At(data, 11))))
    ELSE FDiv(FOfInt(At(data, dd_off)), FOfInt(At(data, dv_off)))

\* the literal 0.05
Twentieth == FDiv(FOfInt(5), FOfInt(100))

decode_voltage(vb) ==
    FRoundDigits(FAdd(FAdd(FOfInt(bits(vb, 6, 5)),
                           FDiv(FOfInt(bits(vb, 4, 1)), FOfInt(10))),
                      IF bits(vb, 0, 0) # 0 THEN Twentieth ELSE FZero), 3)

cas_bitmap(b0, b1) ==
    SelectSeq([j \in 1..8 |-> j + 3], LAMBDA cl : Bit(b0, cl - 4) # 0)
    \o SelectSeq([j \in 1..7 |-> j + 11], LAMBDA cl : Bit(b1, cl - 12) # 0)

u16le(data, lo, hi) == (At(data, lo) + At(data, hi) * 256) % 65536

t_in_ns(count_mtb, mtb) == FRoundDigits(FMulInt(count_mtb, mtb), 3)

clocks_from_ns(ns_val, tck_ns) ==
    IF FPositive(tck_ns) THEN FCeil(FDiv(ns_val, tck_ns)) ELSE 0

\* the command rate guess of parse_profile: <<>> for None, <<guess>> otherwise
OneOrTwo(guess) == IF guess \in {1, 2} THEN <<guess>> ELSE <<>>

\* a variant that cuts the scaled value down to its integer part
CommandRateGuess_truncating(cmd_mode, mtb, tCK_ns) ==
    IF cmd_mode = 0 \/ ~FPositive(tCK_ns) THEN <<>>
    ELSE OneOrTwo(FTrunc(FMulInt(cmd_mode, FDiv(mtb, tCK_ns))))

CommandRateGuess(cmd_mode, mtb, tCK_ns) ==
    IF cmd_mode = 0 \/ ~FPositive(tCK_ns) THEN <<>>
    ELSE OneOrTwo(FRoundInt(FMulInt(cmd_mode, FDiv(mtb, tCK_ns))))

\* the dictionary parse_profile returns, given the five timings its clock
\* counts are made of
ProfileDocument(data, xmp_version, base, mtb, enabled, dimms_per_ch, idx, tCK_ns, tAA_ns, tRP_ns, tRCD_ns, tRAS_ns) ==
        LET upper    == At(data, base + 9)
            tFAW_up  == At(data, base + 18)
            cmd_mode == At(data, base + 23)
        IN   [profile |-> idx,
              enabled |-> enabled,
              dimms_per_channel |-> dimms_per_ch,
              xmp_version |-> xmp_version,
              mtb_ns |-> FRoundDigits(mtb, 6),
              data_rate_MTps |->
                  IF FPositive(tCK_ns) THEN FRoundInt(FDiv(FOfInt(2000), tCK_ns))
                  ELSE 0,
              voltage_V |-> decode_voltage(At(data, base)),
              timings |-> ToString(clocks_from_ns(tAA_ns, tCK_ns)) \o "-"
                          \o ToString(clocks_from_ns(tRCD_ns, tCK_ns)) \o "-"
                          \o ToString(clocks_from_ns(tRP_ns, tCK_ns)) \o "-"
                          \o ToString(clocks_from_ns(tRAS_ns, tCK_ns)),
              command_rate_T |-> CommandRateGuess(cmd_mode, mtb, tCK_ns),
              cas_latencies_supported |->
                  cas_bitmap(At(data, base + 3), At(data, base + 4)),
              timings_ns |->
                  [tCKmin  |-> tCK_ns,
                   tAAmin  |-> tAA_ns,
                   tCWLmin |-> t_in_ns(At(data, base + 5), mtb),
                   tRPmin  |-> tRP_ns,
                   tRCDmin |-> tRCD_ns,
                   tWRmin  |-> t_in_ns(At(data, base + 8), mtb),
                   tRASmin |-> tRAS_ns,
                   tRCmin  |-> t_in_ns((upper \div 16) * 256 + At(data, base + 11), mtb),
                   tREFI   |-> t_in_ns(u16le(data, base + 12, base + 13), mtb),
                   tRFCmin |-> t_in_ns(u16le(data, base + 14, base + 15), mtb),
                   tRTPmin |-> t_in_ns(At(data, base + 16), mtb),
                   tRRDmin |-> t_in_ns(At(data, base + 17), mtb),
                   tFAWmin |-> t_in_ns((tFAW_up % 16) * 256 + At(data, base + 19), mtb),
                   tWTRmin |-> t_in_ns(At(data, base + 20), mtb)],
              raw |->
                  [turnaround_W2R |-> At(data, base + 21),
                   back_to_back |-> At(data, base + 22),
                   cmd_rate_mode_raw |-> cmd_mode,
                   asr_perf_raw |-> At(data, base + 24),
                   vendor_personality |->
                       IF base + 34 < 256 THEN At(data, base + 34) ELSE 0]]

\* parse_profile: <<>> for None (an IndexError caught, or a zero tCK byte),
\* <<profile>> otherwise
parse_profile(data, xmp_version, base, mtb, enabled, dimms_per_ch, idx) ==
    IF (IF base + 34 < 256 THEN base + 34 ELSE base + 24) >= Len(data) THEN <<>>
    ELSE IF At(data, base + 1) = 0 THEN <<>>
    ELSE <<ProfileDocument(data, xmp_version, base, mtb, enabled, dimms_per_ch, idx,
               t_in_ns(At(data, base + 1), mtb),
               t_in_ns(At(data, base + 2), mtb),
               t_in_ns(At(data, base + 6), mtb),
               t_in_ns(At(data, base + 7), mtb),
               t_in_ns((At(data, base + 9) % 16) * 256 + At(data, base + 10), mtb))>>

\* the entry of the simplified list made of a detailed profile
SimpleProfile(pr) ==
    [profile |-> pr.profile,
     data_rate_MTps |-> pr.data_rate_MTps,
     timings |-> pr.timings,
     command_rate_T |-> IF pr.command_rate_T # <<>> THEN pr.command_rate_T[1] ELSE "N/A",
     voltage_V |-> pr.voltage_V,
     enabled |-> pr.enabled,
     dimms_per_channel |-> pr.dimms_per_channel]

\* decode_xmp(data): <<>> for None, otherwise <<the entries decode() adds to
\* the document>>
\* the dictionary decode_xmp returns for a header and the profiles parsed
XmpDocument(header, profiles) ==
    IF profiles # <<>>
    THEN [xmp_header |-> header,
          xmp_profiles |-> [j \in 1..Len(profiles) |-> SimpleProfile(profiles[j])],
          xmp_profiles_detailed |-> profiles]
    ELSE [xmp_header |-> header]

\* decode_xmp after the magic bytes, with the MTB of either profile
XmpWithTimebases(data, mtb_p1_ns, mtb_p2_ns) ==
    LET b178 == At(data, 178)
        b179 == At(data, 179)
        xmp_version == ToString(bits(b179, 7, 4)) \o "." \o ToString(bits(b179, 3, 0))
    IN  XmpDocument(
            [xmp_version |-> xmp_version,
             profile_1_enabled |-> Bit(b178, 0) # 0,
             profile_2_enabled |-> Bit(b178, 1) # 0,
             profile_1_dimms_per_channel |-> bits(b178, 3, 2) + 1,
             profile_2_dimms_per_channel |-> bits(b178, 5, 4) + 1,
             profile_1_mtb_ns |-> FRoundDigits(mtb_p1_ns, 6),
             profile_2_mtb_ns |-> FRoundDigits(mtb_p2_ns, 6)],
            parse_profile(data, xmp_version, 185, mtb_p1_ns,
                          Bit(b178, 0) # 0, bits(b178, 3, 2) + 1, 1)
            \o parse_profile(data, xmp_version, 220, mtb_p2_ns,
                             Bit(b178, 1) # 0, bits(b178, 5, 4) + 1, 2))

decode_xmp(data) ==
    IF Len(data) < 220 \/ At(data, 176) # 12 \/ At(data, 177) # 74 THEN <<>>
    ELSE <<XmpWithTimebases(data, mtb_ns_from(data, 180, 181),
                            mtb_ns_from(data, 182, 183))>>

(***************************************************************************)
(* The SDR decoder (src/sdr_decoder.py).  d is self.data.                  *)
(***************************************************************************)
JEP106_BANK_NAME ==
    (<<0, 4>> :> "HP Inc.") @@
    (<<0, 28>> :> "Mitsubishi") @@
    (<<0, 44>> :> "Micron Technology") @@
    (<<0, 45>> :> "SK hynix (Hyundai)") @@
    (<<0, 78>> :> "Samsung") @@
    (<<1, 152>> :> "Kingston") @@
    (<<2, 158>> :> "Corsair") @@
    (<<3, 27>> :> "Crucial Technology")

\* sum(data) & 0xFF
_sum8(data) ==
    LET loop[lo \in Nat, hi \in Nat] ==
            IF hi <= lo THEN 0
            ELSE IF hi = lo + 1 THEN data[hi]
            ELSE loop[lo, (lo + hi) \div 2] + loop[(lo + hi) \div 2, hi]
    IN  loop[0, Len(data)] % 256

_ns_tenths(b) == FAdd(FOfInt((b \div 16) % 16), FDiv(FOfInt(b % 16), FOfInt(10)))

_ns_quarter(b) ==
    FAdd(FOfInt((b \div 4) % 64), FMulInt(b % 4, FDiv(FOfInt(1), FOfInt(4))))

_mhz_from_tck_ns(tck_ns) ==
    IF ~FPositive(tck_ns) THEN FZero ELSE FDiv(FOfInt(1000), tck_ns)

_cycles(ns_val, tck_ns) ==
    IF ~FPositive(tck_ns) THEN 0 ELSE FRoundInt(FDiv(ns_val, tck_ns))

\* the rating for round(mhz) = rounded
RatingOf(rounded, mhz) ==
    IF 60 <= rounded /\ rounded <= 72 THEN "PC66"
    ELSE IF 90 <= rounded /\ rounded <= 110 THEN "PC100"
    ELSE IF 124 <= rounded /\ rounded <= 140 THEN "PC133"
    ELSE "PC" \o ToString(FRoundInt(FMulInt(8, mhz)))

_pc_rating_from_mhz(mhz) == RatingOf(FRoundInt(mhz), mhz)

\* the values v (v + 1 with add_one) of the bits 0..6 set in b, ascending
_decode_bitmap_latencies(b, add_one) ==
    LET vals[v \in Nat] ==
            IF v > 6 THEN <<>>
            ELSE (IF (b \div (2 ^ v)) % 2 = 1
                  THEN <<IF add_one THEN v + 1 ELSE v>> ELSE <<>>) \o vals[v + 1]
    IN  vals[0]

\* the names of the (lsb, msb) pairs before the first all-zero pair
_decode_manufacturer_id(bank_bytes_le) ==
    LET pairs[i \in Nat] ==
            IF 2 * i >= Len(bank_bytes_le) THEN <<>>
            ELSE LET lsb  == At(bank_bytes_le, 2 * i)
                     msb  == IF 2 * i + 1 < Len(bank_bytes_le)
                             THEN At(bank_bytes_le, 2 * i + 1) ELSE 0
                     bank == lsb % 128
                 IN  IF lsb = 0 /\ msb = 0 THEN <<>>
                     ELSE <<IF <<bank, msb>> \in DOMAIN JEP106_BANK_NAME
                            THEN JEP106_BANK_NAME[<<bank, msb>>]
                            ELSE "JEDEC(b" \o Hex02(bank) \o ",c" \o Hex02(msb) \o ")">>
                          \o pairs[i + 1]
        join[s \in Seq(STRING)] ==
            IF Len(s) = 1 THEN s[1] ELSE s[1] \o ", " \o join[Tail(s)]
    IN  IF pairs[0] = <<>> THEN "" ELSE join[pairs[0]]

\* the code points str.strip() removes, among those a decoded byte can give
Whitespace == (9..13) \cup (28..32)

\* bytes(..).decode("ascii", errors="replace").rstrip('\x00').strip(), as
\* code points
PartNumberText(raw) ==
    LET text == [i \in 1..Len(raw) |-> IF raw[i] > 127 THEN 65533 ELSE raw[i]]
        keep == {i \in 1..Len(text) : text[i] # 0}
        endz == IF keep = {} THEN 0 ELSE CHOOSE i \in keep : \A j \in keep : j <= i
        ink  == {i \in 1..endz : text[i] \notin Whitespace}
    IN  IF ink = {} THEN <<>>
        ELSE SubSeq(text, CHOOSE i \in ink : \A j \in ink : i <= j,
                          CHOOSE i \in ink : \A j \in ink : j <= i)

\* f"{n:02d}"
Dec02(n) == IF n < 10 THEN "0" \o ToString(n) ELSE ToString(n)

\* max(calculated_cl, min(supported_cls)) if supported_cls else calculated_cl
FinalCl(calculated_cl, supported_cls) ==
    IF supported_cls # <<>>
    THEN Max(calculated_cl, supported_cls[1]) ELSE calculated_cl

\* the profile for the frequency mhz of the clock period
ProfileAt(d, label, tck_ns, tac_ns, mhz) ==
    [label |-> label,
     tCK_ns |-> FRoundDigits(tck_ns, 3),
     tAC_ns |-> FRoundDigits(tac_ns, 3),
     freq_MHz |-> FRoundDigits(mhz, 1),
     data_rate_MTps |-> FRoundInt(mhz),
     pc_rating |-> _pc_rating_from_mhz(mhz),
     CL |-> FinalCl(_cycles(tac_ns, tck_ns), _decode_bitmap_latencies(At(d, 18), TRUE)),
     tRCD |-> _cycles(FOfInt(At(d, 29)), tck_ns),
     tRP |-> _cycles(FOfInt(At(d, 27)), tck_ns),
     tRAS |-> _cycles(FOfInt(At(d, 30)), tck_ns),
     tRRD |-> _cycles(FOfInt(At(d, 28)), tck_ns)]

\* the profile add_profile builds from a clock period and an access time
Profile(d, label, tck_ns, tac_ns) ==
    ProfileAt(d, label, tck_ns, tac_ns, _mhz_from_tck_ns(tck_ns))

\* profiles with prof appended unless one of them has its tCK_ns
AppendNew(profiles, prof) ==
    IF \E i \in 1..Len(profiles) : ExactCmp(1, profiles[i].tCK_ns, prof.tCK_ns) = 0
    THEN profiles
    ELSE Append(profiles, prof)

\* profiles after add_profile(label, tck_ns, tac_ns)
add_profile(d, profiles, label, tck_ns, tac_ns) ==
    IF ~FPositive(tck_ns) THEN profiles
    ELSE AppendNew(profiles, Profile(d, label, tck_ns, tac_ns))

\* profiles.sort(key=freq_MHz, reverse=True): descending, equal keys in their
\* original order
SortByFreq(profiles) ==
    LET ins(sorted, p) ==
            LET ahead == {i \in 1..Len(sorted) :
                              ExactCmp(1, sorted[i].freq_MHz, p.freq_MHz) >= 0}
                n == Cardinality(ahead)
            IN  SubSeq(sorted, 1, n) \o <<p>> \o SubSeq(sorted, n + 1, Len(sorted))
        sort[i \in Nat] == IF i = 0 THEN <<>> ELSE ins(sort[i - 1], profiles[i])
    IN  sort[Len(profiles)]

SdrTimings(d) ==
    [tCK_highestCL_ns |-> _ns_tenths(At(d, 9)),
     tAC_highestCL_ns |-> _ns_tenths(At(d, 10)),
     tCK_mediumCL_ns |-> _ns_tenths(At(d, 23)),
     tAC_mediumCL_ns |-> _ns_tenths(At(d, 24)),
     tCK_shortCL_ns |-> _ns_quarter(At(d, 25)),
     tAC_shortCL_ns |-> _ns_quarter(At(d, 26)),
     tRP_min_ns |-> FOfInt(At(d, 27)),
     tRRD_min_ns |-> FOfInt(At(d, 28)),
     tRCD_min_ns |-> FOfInt(At(d, 29)),
     tRAS_min_ns |-> FOfInt(At(d, 30))]

\* the profile list: the three stored operating points, the three standard
\* ones when tAC at the highest CL is positive, the sort, and the three stored
\* points once more
\* profiles after add_profile for each of the points, in their order
AddProfiles(d, profiles, points) ==
    LET added[i \in Nat] ==
            IF i = 0 THEN profiles
            ELSE add_profile(d, added[i - 1], points[i].label, points[i].tck_ns,
                             points[i].tac_ns)
    IN  added[Len(points)]

\* the three operating points the image stores
StoredPoints(t) ==
    <<[label |-> "highest", tck_ns |-> t.tCK_highestCL_ns, tac_ns |-> t.tAC_highestCL_ns],
      [label |-> "medium", tck_ns |-> t.tCK_mediumCL_ns, tac_ns |-> t.tAC_mediumCL_ns],
      [label |-> "short", tck_ns |-> t.tCK_shortCL_ns, tac_ns |-> t.tAC_shortCL_ns]>>

\* the three standard operating points, when tAC at the highest CL is positive
StandardPoints(t) ==
    IF FPositive(t.tAC_highestCL_ns)
    THEN <<[label |-> "extrapolated_PC133", tck_ns |-> FDiv(FOfInt(15), FOfInt(2)),
            tac_ns |-> t.tAC_highestCL_ns],
           [label |-> "extrapolated_PC100", tck_ns |-> FOfInt(10),
            tac_ns |-> t.tAC_highestCL_ns],
           [label |-> "extrapolated_PC66", tck_ns |-> FOfInt(15),
            tac_ns |-> t.tAC_highestCL_ns]>>
    ELSE <<>>

SdrProfilesOf(d, stored, standard) ==
    AddProfiles(d, SortByFreq(AddProfiles(d, <<>>, stored \o standard)), stored)

SdrProfilesAt(d, t) == SdrProfilesOf(d, StoredPoints(t), StandardPoints(t))

SdrProfiles(d) == SdrProfilesAt(d, SdrTimings(d))

\* the warnings list of SDRDecoder.decode, in the order they are appended
\* tCK at the medium or at the short CL is 0.0
Incomplete(t) == t.tCK_mediumCL_ns.m = <<>> \/ t.tCK_shortCL_ns.m = <<>>

SdrWarnings(d) ==
        (IF Incomplete(SdrTimings(d))
         THEN <<"SPD contains an incomplete timing profile; slower speeds were extrapolated.">>
         ELSE <<>>)
        \o (IF _decode_bitmap_latencies(At(d, 18), TRUE) = <<>>
            THEN <<"Byte 18 specifies no supported CAS Latencies.">> ELSE <<>>)
        \o (IF _decode_manufacturer_id(Slice(d, 64, 72)) = ""
            THEN <<"Manufacturing block is missing a JEDEC ID.">> ELSE <<>>)
        \o (IF PartNumberText(Slice(d, 73, 91)) = <<>>
            THEN <<"Manufacturing block is missing a Part Number.">> ELSE <<>>)
        \o (IF Hex02(At(d, 95)) \o Hex02(At(d, 96)) \o Hex02(At(d, 97))
                  \o Hex02(At(d, 98)) = "00000000"
            THEN <<"Serial number is all zeros.">> ELSE <<>>)

\* SDRDecoder.decode: the document, without its general, addressing and
\* intel_info entries and with the CAS latencies as the only capability
SdrDecode(d) ==
    [timings_ns |-> SdrTimings(d),
     derived |-> [profiles |-> SdrProfiles(d)],
     capabilities |-> [cas_latencies |-> _decode_bitmap_latencies(At(d, 18), TRUE)],
     manufacturing |->
         [jedec_ids_readable |-> _decode_manufacturer_id(Slice(d, 64, 72)),
          part_number |-> IF PartNumberText(Slice(d, 73, 91)) = <<>>
                          THEN "Unknown" ELSE PartNumberText(Slice(d, 73, 91)),
          manufacture_date |->
              "20" \o Dec02((At(d, 93) % 16) + 10 * ((At(d, 93) \div 16) % 16))
              \o "-W" \o Dec02((At(d, 94) % 16) + 10 * ((At(d, 94) \div 16) % 16)),
          serial_number_hex |->
              Hex02(At(d, 95)) \o Hex02(At(d, 96)) \o Hex02(At(d, 97))
              \o Hex02(At(d, 98))],
     crc_info |-> [stored |-> At(d, 63), computed |-> _sum8(Slice(d, 0, 63)),
                   status |-> IF At(d, 63) = _sum8(Slice(d, 0, 63))
                              THEN "ok" ELSE "bad"],
     warnings |-> SdrWarnings(d)]

(***************************************************************************)
(* DDR3Decoder.decode (src/ddr3_decoder.py): the document.  A section      *)
(* decoder that can return None gives <<>> for None and <<section>>        *)
(* otherwise.                                                              *)
(***************************************************************************)
IndexError == [type |-> "IndexError", arg |-> "index out of range"]

NotImplementedError(msg) == [type |-> "NotImplementedError", arg |-> msg]

_bcd_to_int(bcd_byte) == (bcd_byte \div 16) * 10 + (bcd_byte % 16)

_decode_byte0_info(b0) ==
    "CRC Coverage: " \o (IF Bit(b0, 7) = 0 THEN "0..125" ELSE "0..116")
    \o "; Total Size: " \o (IF (b0 \div 16) % 8 = 1 THEN "256 bytes" ELSE "reserved")
    \o "; Bytes Used: "
    \o (CASE b0 % 16 = 1 -> "128" [] b0 % 16 = 2 -> "176" [] b0 % 16 = 3 -> "256"
          [] OTHER -> "reserved")

_decode_general(d) ==
    [spd_revision |-> ToString(At(d, 1) \div 16) \o "." \o ToString(At(d, 1) % 16),
     memory_type |-> "DDR3 SDRAM",
     module_type |-> _ddr3_module_type_name(At(d, 3)),
     byte0_info |-> _decode_byte0_info(At(d, 0)),
     voltages_supported |->
         (IF Bit(At(d, 6), 0) = 0 THEN <<"1.5V">> ELSE <<>>)
         \o (IF Bit(At(d, 6), 1) # 0 THEN <<"1.35V">> ELSE <<>>)
         \o (IF Bit(At(d, 6), 2) # 0 THEN <<"1.25V">> ELSE <<>>)]

\* the printable characters of d[128:146], stripped, as code points
ModulePartNumber(d) ==
    LET text == SelectSeq(Slice(d, 128, 146), LAMBDA c : 32 <= c /\ c <= 126)
        ink  == {i \in 1..Len(text) : text[i] # 32}
    IN  IF ink = {} THEN <<>>
        ELSE SubSeq(text, CHOOSE i \in ink : \A j \in ink : i <= j,
                          CHOOSE i \in ink : \A j \in ink : j <= i)

\* the highest offset _decode_manufacturing reads with an index; the first
\* index it reads beyond 127 is 146
ManufacturingLastIndex == 149

\* a variant that reads the bytes beyond the end of self.data as zero
_decode_manufacturing_padded(d) ==
    LET z == d \o [i \in 1..(256 - Min(256, Len(d))) |-> 0]
    IN  <<[module_part_number |-> ModulePartNumber(z),
           module_die_revision |-> At(z, 146),
           module_pcb_revision |-> At(z, 147),
           manufacturing_location |-> At(z, 119),
           module_mfg_id |-> _decode_jep106(At(z, 117), At(z, 118)),
           dram_mfg_id |-> _decode_jep106(At(z, 148), At(z, 149)),
           serial_number |-> Hex02(At(z, 122)) \o Hex02(At(z, 123))
                             \o Hex02(At(z, 124)) \o Hex02(At(z, 125)),
           manufacture_date |-> "20" \o Dec02(_bcd_to_int(At(z, 120)))
                                \o "-W" \o Dec02(_bcd_to_int(At(z, 121)))]>>

\* <<>> stands for the IndexError of a read beyond the end of self.data
_decode_manufacturing(d) ==
    IF Len(d) <= ManufacturingLastIndex THEN <<>>
    ELSE <<[module_part_number |-> ModulePartNumber(d),
            module_die_revision |-> At(d, 146),
            module_pcb_revision |-> At(d, 147),
            manufacturing_location |-> At(d, 119),
            module_mfg_id |-> _decode_jep106(At(d, 117), At(d, 118)),
            dram_mfg_id |-> _decode_jep106(At(d, 148), At(d, 149)),
            serial_number |-> Hex02(At(d, 122)) \o Hex02(At(d, 123))
                              \o Hex02(At(d, 124)) \o Hex02(At(d, 125)),
            manufacture_date |-> "20" \o Dec02(_bcd_to_int(At(d, 120)))
                                 \o "-W" \o Dec02(_bcd_to_int(At(d, 121)))]>>

_decode_hpt(d) ==
    LET present == Slice(d, 176, 180) = <<72, 80, 84, 0>>
    IN  [present |-> present,
         code |-> IF present
                  THEN Hex02(At(d, 180)) \o " " \o Hex02(At(d, 181)) \o " "
                       \o Hex02(At(d, 182)) \o " " \o Hex02(At(d, 183))
                  ELSE None]

RdimmTypes == {1, 5, 9}

LrdimmType == 11

UnbufferedTypes == {2, 3, 4, 6, 8, 12, 13}

RowsOrRegisters(code, unit) ==
    CASE code = 1 -> "1 " \o unit
      [] code = 2 -> "2 " \o unit \o "s"
      [] code = 3 -> "4 " \o unit \o "s"
      [] OTHER -> "Undefined"

\* a variant that takes the LRDIMM type for one more RDIMM type
_decode_registered_info_rdimm_only(d) ==
    IF At(d, 3) \in RdimmTypes \cup {LrdimmType}
    THEN <<[mfg_id_offset |-> 65,
            mfg_id |-> _decode_jep106(At(d, 65), At(d, 66)),
            revision |-> At(d, 67),
            dram_rows |-> RowsOrRegisters((At(d, 63) \div 4) % 4, "row"),
            registers |-> RowsOrRegisters(At(d, 63) % 4, "register"),
            heat_spreader |-> Bit(At(d, 64), 7) # 0,
            control_words |-> Slice(d, 69, 77)]>>
    ELSE <<>>

_decode_registered_info(d) ==
    IF At(d, 3) \in RdimmTypes
    THEN <<[mfg_id_offset |-> 65,
            mfg_id |-> _decode_jep106(At(d, 65), At(d, 66)),
            revision |-> At(d, 67),
            dram_rows |-> RowsOrRegisters((At(d, 63) \div 4) % 4, "row"),
            registers |-> RowsOrRegisters(At(d, 63) % 4, "register"),
            heat_spreader |-> Bit(At(d, 64), 7) # 0,
            control_words |-> Slice(d, 69, 77)]>>
    ELSE IF At(d, 3) = LrdimmType
    THEN <<[mfg_id_offset |-> 60,
            mfg_id |-> _decode_jep106(At(d, 60), At(d, 61)),
            revision |-> At(d, 62),
            personality_bytes |-> Slice(d, 102, 115)]>>
    ELSE <<>>

\* f"{n} < thickness <= {n+1} mm" if n > 0 else "thickness <= 1 mm"
Thickness(n) ==
    IF n > 0 THEN ToString(n) \o " < thickness <= " \o ToString(n + 1) \o " mm"
    ELSE "thickness <= 1 mm"

\* the section without its ref_raw_card letter
_decode_unbuffered_info(d) ==
    IF At(d, 3) \notin UnbufferedTypes THEN <<>>
    ELSE LET height_code == At(d, 60) % 32
         IN  <<[nominal_height |->
                    IF height_code > 0
                    THEN ToString(15 + height_code - 1) \o " < height <= "
                         \o ToString(15 + height_code) \o " mm"
                    ELSE "height <= 15 mm",
                max_thickness_front |-> Thickness(At(d, 61) % 16),
                max_thickness_back |-> Thickness((At(d, 61) \div 16) % 16),
                ref_raw_card_rev |-> ((At(d, 62) \div 32) % 4)
                                     + (IF (At(d, 60) \div 32) % 8 > 0 THEN 4 ELSE 0),
                rank_1_mapping_mirrored |-> Bit(At(d, 63), 0) # 0]>>

\* the module types _decode_mechanical_info decodes the section for
MechanicalTypes == {1, 2, 3, 4, 5, 8, 9, 11, 12, 13, 17}

\* the section without its ref_raw_card letter
_decode_mechanical_info(d) ==
    IF At(d, 3) \notin MechanicalTypes THEN <<>>
    ELSE LET height_code == At(d, 60) % 32
         IN  <<[nominal_height |->
                    IF height_code > 0
                    THEN ToString(14 + height_code) \o " < height <= "
                         \o ToString(15 + height_code) \o " mm"
                    ELSE "height <= 15 mm",
                max_thickness_front |-> Thickness(At(d, 61) % 16),
                max_thickness_back |-> Thickness((At(d, 61) \div 16) % 16),
                ref_raw_card_rev |-> ((At(d, 62) \div 32) % 4)
                                     + (IF (At(d, 60) \div 32) % 8 > 0 THEN 4 ELSE 0),
                rank_1_mapping_mirrored |-> Bit(At(d, 63), 0) # 0]>>

\* sorted(list(s)) for a set of integers
Sorted(s) ==
    [j \in 1..Cardinality(s) |->
        CHOOSE o \in s : Cardinality({x \in s : x < o}) = j - 1]

\* self._decode_xmp() is not None: the header check of lines 550-551; every
\* other return of the method is a dict with the header entry
XmpHeaderValid(d) == ~(Len(d) < 220 \/ At(d, 176) # 12 \/ At(d, 177) # 74)

\* a variant in which the vendor tag does not claim the customer region
UsedBytes_header_only(d, module_type) ==
    (0..32) \cup (34..38) \cup (117..125) \cup (128..149) \cup (126..127)
    \cup (IF module_type \in {2, 3, 4, 6, 8, 12, 13} THEN 60..63
          ELSE IF module_type \in {1, 5, 9} THEN 60..77
          ELSE IF module_type = 11 THEN (60..62) \cup (102..115)
          ELSE {})
    \cup (IF XmpHeaderValid(d) THEN 176..255 ELSE {})

\* used_bytes of _find_gaps
UsedBytes(d, module_type) ==
    (0..32) \cup (34..38) \cup (117..125) \cup (128..149) \cup (126..127)
    \cup (IF module_type \in {2, 3, 4, 6, 8, 12, 13} THEN 60..63
          ELSE IF module_type \in {1, 5, 9} THEN 60..77
          ELSE IF module_type = 11 THEN (60..62) \cup (102..115)
          ELSE {})
    \cup (IF XmpHeaderValid(d) \/ _decode_hpt(d).present THEN 176..255 ELSE {})

\* the loop over gap_bytes[1:] and the append after it: st holds start, end
\* and ranges; the passes over indices lo+1..hi are those over the first
\* half followed by those over the second half
GapRanges(gap_bytes) ==
    LET loop[lo \in Nat, hi \in Nat,
             st \in [start : Nat, end : Nat, ranges : Seq(Nat \X Nat)]] ==
            IF hi <= lo THEN st
            ELSE IF hi = lo + 1
            THEN IF gap_bytes[hi] = st.end + 1
                 THEN [st EXCEPT !.end = gap_bytes[hi]]
                 ELSE [start |-> gap_bytes[hi], end |-> gap_bytes[hi],
                       ranges |-> Append(st.ranges, <<st.start, st.end>>)]
            ELSE loop[(lo + hi) \div 2, hi, loop[lo, (lo + hi) \div 2, st]]
        last == loop[1, Len(gap_bytes),
                     [start |-> gap_bytes[1], end |-> gap_bytes[1], ranges |-> <<>>]]
    IN  Append(last.ranges, <<last.start, last.end>>)

_find_gaps_with(used_bytes) ==
    IF (0..255) \ used_bytes = {} THEN [undecoded_gaps |-> <<>>]
    ELSE [undecoded_gaps |-> GapRanges(Sorted((0..255) \ used_bytes))]

_find_gaps(d) == _find_gaps_with(UsedBytes(d, At(d, 3)))

\* the entry a section decoder's result adds to the document
Entry(key, section) == IF section = <<>> THEN <<>> ELSE (key :> section[1])

\* decode, lines 84-114, without the organization and SDRAM feature
\* entries.  [ok |-> FALSE] carries the exception decode ends with.
\* decoded.update(section) for a section that may be None
Update(section) == IF section = <<>> THEN <<>> ELSE section[1]

\* decode with the results t of _decode_timings and mfg of
\* _decode_manufacturing
Ddr3DecodeWith(d, t, mfg) ==
    IF mfg = <<>> THEN [ok |-> FALSE, exc |-> IndexError]
    ELSE [ok |-> TRUE,
          doc |-> _find_gaps(d)
                  @@ [crc_info |-> _detect_base_crc(d)]
                  @@ Update(decode_xmp(d))
                  @@ Entry("registered_info", _decode_registered_info(d))
                  @@ Entry("unbuffered_info", _decode_unbuffered_info(d))
                  @@ Entry("mechanical_info", _decode_mechanical_info(d))
                  @@ [general |-> _decode_general(d),
                      manufacturing |-> mfg[1],
                      hpt_info |-> _decode_hpt(d)]
                  @@ _calculate_jedec_downbins(d, t.timings_ns,
                                               t.max_data_rate_MTps)
                  @@ t]

Ddr3Decode(d) == Ddr3DecodeWith(d, _decode_timings(d), _decode_manufacturing(d))

(***************************************************************************)
(* SPD.__init__ (src/spd_library.py).                                      *)
(***************************************************************************)
MEM_SDR == 4

MEM_DDR3 == 11

\* the shortest image
LegacySize == 128

\* the longest image
FullSize == 256

TooShortMessage == "SPD data must be at least 128 bytes (128B legacy or 256B)."

\* lines 32-36: the first 256 bytes when there are that many, else the first 128
Normalize(raw) ==
    IF Len(raw) >= FullSize THEN Slice(raw, 0, FullSize)
    ELSE Slice(raw, 0, LegacySize)

\* SDRDecoder(data): <<>> stands for the ValueError of its constructor
SDRDecoder(data) == IF Len(data) < LegacySize THEN <<>> ELSE <<"SDRDecoder">>

UnsupportedMessage(data) ==
    "Memory type 0x" \o Hex02(At(data, 2)) \o " not supported yet (len="
    \o ToString(Len(data)) \o ")."

\* a variant without the attempt at the SDR decoder for 128-byte images
_get_decoder_without_fallback(data) ==
    IF At(data, 2) = MEM_SDR /\ SDRDecoder(data) # <<>>
    THEN [ok |-> TRUE, decoder |-> "SDRDecoder"]
    ELSE IF At(data, 2) = MEM_DDR3
    THEN [ok |-> TRUE, decoder |-> "DDR3Decoder"]
    ELSE [ok |-> FALSE, exc |-> NotImplementedError(UnsupportedMessage(data))]

\* the decoder chosen, or the exception raised
_get_decoder_with_fallback(data) ==
    IF At(data, 2) = MEM_SDR
    THEN IF SDRDecoder(data) # <<>>
         THEN [ok |-> TRUE, decoder |-> "SDRDecoder"]
         ELSE [ok |-> FALSE, exc |-> ValueError("SDR SPD must be 128 bytes (got "
                                                  \o ToString(Len(data)) \o ").")]
    ELSE IF At(data, 2) = MEM_DDR3
    THEN [ok |-> TRUE, decoder |-> "DDR3Decoder"]
    ELSE IF Len(data) = LegacySize /\ SDRDecoder(data) # <<>>
    THEN [ok |-> TRUE, decoder |-> "SDRDecoder"]
    ELSE [ok |-> FALSE, exc |-> NotImplementedError(UnsupportedMessage(data))]

(***************************************************************************)
(* The images the decoders are run on.                                     *)
(***************************************************************************)
\* the code points of "M378B5273DH0-CK0", padded with two spaces
PartNumberBytes ==
    <<77, 51, 55, 56, 66, 53, 50, 55, 51, 68, 72, 48, 45, 67, 75, 48, 32, 32>>

\* the bytes v at the offsets from first on
BytesAt(first, v) == [o \in first..(first + Len(v) - 1) |-> v[o - first + 1]]

\* a 256-byte DDR3-1600 UDIMM: MTB 1/8 ns, FTB 1 ps, tCK 1.25 ns, tAA, tRCD
\* and tRP 13.75 ns, tRAS 35 ns, tRC 48.75 ns, tRFC 160 ns
Ddr3Base ==
    WithBytes([j \in 1..256 |-> 0],
        BytesAt(0, <<146, 19, 11, 2, 4, 33, 0, 9, 3, 17, 1, 8, 10, 0, 252, 0,
                     110, 120, 110, 48, 110, 17, 24, 134, 0, 5>>)
        @@ BytesAt(60, <<15, 17, 0, 0>>)
        @@ BytesAt(117, <<128, 206, 1, 20, 35, 1, 2, 3, 4>>)
        @@ BytesAt(128, PartNumberBytes)
        @@ BytesAt(146, <<0, 0, 128, 206>>))

\* bytes 12 and 34: tCK of 1.25, 1.5, 1.875, 2.5, 1.07, 0.938, 1.072, 1.4,
\* 0.144 and 0.145 ns, zero, and -0.001 ns
ClockBytes ==
    {<<10, 0>>, <<12, 0>>, <<15, 0>>, <<20, 0>>, <<9, 201>>, <<8, 194>>,
     <<9, 203>>, <<11, 25>>, <<1, 19>>, <<1, 20>>, <<0, 0>>, <<0, 255>>}

\* bytes 16, 35, 18, 36, 20, 37, 21 and 22: tAA, tRCD, tRP and tRAS of
\* 13.75, 13.75, 13.75, 35; 21, 18, 3.625, 21; 9.63, 13.125, 13.5, 36; zero
TimingBytes ==
    {<<110, 0, 110, 0, 110, 0, 17, 24>>, <<168, 0, 144, 0, 29, 0, 16, 168>>,
     <<77, 5, 105, 0, 108, 0, 17, 32>>, <<0, 0, 0, 0, 0, 0, 0, 0>>}

TimingImages ==
    {WithBytes(Ddr3Base,
               (12 :> ck[1]) @@ (34 :> ck[2]) @@ (16 :> tm[1]) @@ (35 :> tm[2])
               @@ (18 :> tm[3]) @@ (36 :> tm[4]) @@ (20 :> tm[5]) @@ (37 :> tm[6])
               @@ (21 :> tm[7]) @@ (22 :> tm[8])) :
        ck \in ClockBytes, tm \in TimingBytes}

\* bytes 9, 10, 11, 12 and 34: timebases with a zero operand, whole-number
\* timebases whose data rate falls halfway between two integers, and a
\* fine timebase of 2.5 ps
TimebaseBytes ==
    {<<17, 0, 8, 10, 0>>, <<17, 8, 0, 1, 0>>, <<17, 0, 0, 10, 0>>,
     <<80, 1, 8, 10, 5>>, <<82, 1, 8, 10, 2>>, <<0, 1, 8, 10, 250>>,
     <<17, 1, 1, 32, 0>>, <<17, 1, 1, 160, 0>>, <<17, 16, 1, 250, 0>>,
     <<17, 1, 1, 25, 0>>}

TimebaseImages ==
    {WithBytes(Ddr3Base,
               (9 :> tb[1]) @@ (10 :> tb[2]) @@ (11 :> tb[3]) @@ (12 :> tb[4])
               @@ (34 :> tb[5])) : tb \in TimebaseBytes}

\* byte 3: every type a section decoder names, and four it does not
ModuleTypeBytes == (0..13) \cup {17, 255}

\* each module type, with the low-voltage bit of byte 6 clear and set
ModuleTypeImages ==
    {WithBytes(Ddr3Base, (3 :> mt) @@ (6 :> lv) @@ BytesAt(60, <<37, 35, 165, 5, 128, 128, 44, 7>>)
                         @@ BytesAt(102, <<1, 2, 3, 4, 5, 6, 7, 8, 9, 10, 11, 12, 13>>)) :
        mt \in ModuleTypeBytes, lv \in {0, 2}}

\* an overclock profile block at base: voltage, tCK, tAA, two CAS bytes,
\* tCWL, tRP, tRCD, tWR, the upper nibbles, tRAS, tRC, and the command mode
\* at base + 23
ProfileBytes(base, tck, taa, trp, trcd, tras, cmd) ==
    BytesAt(base, <<42, tck, taa, 252, 0, 6, trp, trcd, 12, 16 + (tras \div 256),
                    tras % 256, 134>>)
    @@ ((base + 23) :> cmd)

\* the header at 176..183 with both timebases, and the two profiles
XmpImages ==
    {WithBytes(Ddr3Base, BytesAt(176, <<12, 74, h[1], 19, h[2], h[3], h[4], h[5]>>)
                         @@ ProfileBytes(185, p[1], p[2], p[3], p[4], p[5], p[6])
                         @@ ProfileBytes(220, p[7], p[2], p[3], p[4], p[5], p[6])) :
        h \in {<<1, 1, 8, 1, 12>>, <<7, 1, 10, 0, 0>>, <<2, 0, 0, 1, 1>>},
        p \in {<<8, 80, 88, 88, 216, 8, 7>>, <<12, 84, 90, 96, 280, 3, 0>>,
               <<0, 80, 80, 80, 200, 16, 32>>, <<32, 200, 80, 80, 277, 1, 160>>,
               <<8, 80, 88, 88, 216, 16, 6>>, <<2, 80, 88, 88, 216, 3, 6>>,
               <<8, 80, 88, 88, 216, 0, 8>>}}
    \cup {WithBytes(Ddr3Base, BytesAt(176, <<12, 74, 0, 0>>)),
          WithBytes(Ddr3Base, BytesAt(176, <<72, 80, 84, 0, 164, 1, 133, 232>>))}

\* bytes 117..118 (the module maker), 122..125 (the serial number) and
\* 128..145 (the part number) present or zero
IdImages ==
    {WithBytes(Ddr3Base, BytesAt(117, mk) @@ BytesAt(122, sn) @@ BytesAt(128, pn)) :
        mk \in {<<128, 206>>, <<0, 0>>}, sn \in {<<1, 2, 3, 4>>, <<0, 0, 0, 0>>},
        pn \in {PartNumberBytes, [j \in 1..18 |-> 0], [j \in 1..18 |-> 32]}}

\* a 128-byte SDR image: tCK 7.5, 10 and 15 ns at the three CAS latencies,
\* CL 2 and 3 supported, tRP 20, tRRD 15, tRCD 20 and tRAS 45 ns
SdrBase ==
    WithBytes([j \in 1..128 |-> 0],
        BytesAt(0, <<128, 8, 4, 12, 9, 1, 64, 0, 1, 117, 84, 0, 128>>)
        @@ BytesAt(16, <<143, 4, 6, 1, 1, 0, 14, 160, 96, 60, 28, 20, 15, 20, 45, 32>>)
        @@ BytesAt(62, <<18, 0, 0, 44>>)
        @@ BytesAt(73, PartNumberBytes)
        @@ BytesAt(93, <<3, 18, 1, 2, 3, 4>>))

\* bytes 9, 10, 23, 25 and 18: the clock periods and the CAS bitmap;
\* bytes 27..30: tRP, tRRD, tRCD, tRAS
SdrTimingImages ==
    {WithBytes(SdrBase,
               (9 :> ck[1]) @@ (10 :> ck[2]) @@ (23 :> ck[3]) @@ (25 :> ck[4])
               @@ (18 :> ck[5]) @@ BytesAt(27, tm)) :
        ck \in {<<117, 84, 160, 60, 6>>, <<160, 96, 0, 0, 4>>, <<117, 0, 160, 60, 6>>,
                <<0, 84, 0, 0, 0>>, <<128, 96, 117, 30, 2>>},
        tm \in {<<20, 15, 20, 45>>, <<15, 15, 15, 45>>, <<0, 0, 0, 0>>,
                <<24, 16, 26, 50>>}}

\* bytes 64..65 (the maker), 73..90 (the part number), 95..98 (the serial)
SdrIdImages ==
    {WithBytes(SdrBase, BytesAt(64, mk) @@ BytesAt(73, pn) @@ BytesAt(95, sn)) :
        mk \in {<<0, 44>>, <<0, 0>>, <<127, 127>>}, sn \in {<<1, 2, 3, 4>>, <<0, 0, 0, 0>>},
        pn \in {PartNumberBytes, [j \in 1..18 |-> 0], [j \in 1..18 |-> 32],
                [j \in 1..18 |-> 255]}}

\* files of other lengths and memory types: shorter than 128 bytes, between
\* 128 and 256, longer than 256; byte 2 naming SDR, DDR3, or neither
OddImages ==
    {SubSeq(WithBytes(Ddr3Base \o Ddr3Base, 2 :> mem_type), 1, size) :
        size \in {0, 2, 100, 127, 128, 150, 200, 255, 256, 300},
        mem_type \in {MEM_SDR, MEM_DDR3, 0, 7, 12}}

\* the year and week bytes (120..121 of a DDR3 image, 93..94 of an SDR
\* image): decimal digits in both nibbles, or a nibble above 9
DateBytes == {<<18, 37>>, <<153, 83>>, <<154, 9>>, <<255, 160>>}

DateImages ==
    {WithBytes(Ddr3Base, BytesAt(120, dt)) : dt \in DateBytes}
    \cup {WithBytes(SdrBase, BytesAt(93, dt)) : dt \in DateBytes}

DecodeImages ==
    TimingImages \cup TimebaseImages \cup ModuleTypeImages \cup XmpImages
    \cup IdImages \cup SdrTimingImages \cup SdrIdImages \cup OddImages
    \cup DateImages

(***************************************************************************)
(* The state.                                                              *)
(***************************************************************************)
VARIABLES
    pc,          \* where cmd_patch is: "call", "named", "ranges", "crc",
                 \* "validate", "done" ("idle": no patch command)
    target_id,   \* the target file loaded
    source_id,   \* the source file loaded
    args,        \* the parsed command line
    mem,         \* the bytes of each object
    target,      \* the object the local name target is bound to
    changed,     \* the local flag changed
    rng,         \* the position of the for loop in args.copy_range
    raised,      \* the exception patch() has raised
    printed,     \* the lines printed
    returned,    \* the bytes patch() has returned (<<>>: nothing)
    out_file,    \* the bytes written to args.out (<<>>: no file)
    validated,   \* the object the final detection has read ("": none)
    crc_data,    \* a decoder's self.data
    crc_mut,     \* the bytearray _rewrite_base_crc is given
    crc_prev,    \* crc_mut before the last rewrite
    crc_result,  \* the last result of _detect_base_crc
    rewrites,    \* the rewrites done
    spd_pc,      \* where SPD(data) is: "new", "choose", "decode", "done",
                 \* "failed" ("idle": no SPD is being constructed)
    spd_raw,     \* the bytes SPD() is given
    spd_data,    \* SPD.data (<<>>: not assigned)
    spd_decoder, \* the class of SPD.decoder ("": not assigned)
    spd_doc,     \* SPD.decoded_data as <<document>> (<<>>: not assigned)
    spd_raised   \* the exception SPD() has raised

patch_vars == <<pc, target_id, source_id, args, mem, target, changed, rng,
                raised, printed, returned, out_file, validated>>

crc_vars == <<crc_data, crc_mut, crc_prev, crc_result, rewrites>>

spd_vars == <<spd_pc, spd_raw, spd_data, spd_decoder, spd_doc, spd_raised>>

vars == <<pc, target_id, source_id, args, mem, target, changed, rng, raised,
          printed, returned, out_file, validated,
          crc_data, crc_mut, crc_prev, crc_result, rewrites,
          spd_pc, spd_raw, spd_data, spd_decoder, spd_doc, spd_raised>>

Objects == {ObjSelf, ObjSource, ObjNew}

NoRequest ==
    [copy_vendor |-> FALSE, copy_hpt |-> FALSE, set_hpt |-> <<>>,
     copy_mfgid |-> FALSE, copy_partnum |-> FALSE, copy_range |-> <<>>,
     force |-> FALSE]

PatchIdle ==
    /\ pc = "idle" /\ target_id = "" /\ source_id = "" /\ args = NoRequest
    /\ mem = [o \in Objects |-> <<>>] /\ target = "" /\ changed = FALSE
    /\ rng = 1 /\ raised = NoException /\ printed = <<>> /\ returned = <<>>
    /\ out_file = <<>> /\ validated = ""

CrcIdle ==
    /\ crc_data = <<>> /\ crc_mut = <<>> /\ crc_prev = <<>>
    /\ crc_result = NoResult /\ rewrites = 0

SpdIdle ==
    /\ spd_pc = "idle" /\ spd_raw = <<>> /\ spd_data = <<>>
    /\ spd_decoder = "" /\ spd_doc = <<>> /\ spd_raised = NoException

(***************************************************************************)
(* cmd_patch: load the two files, patch, write the output file.            *)
(***************************************************************************)
\* cmd_patch lines 74-75: both files are loaded; patch is about to be called
Init ==
    /\ pc = "call"
    /\ target_id \in TargetIds
    /\ source_id \in SourceIds
    /\ args \in Requests
    /\ mem = [o \in Objects |->
                IF o = ObjSelf THEN TargetImage(target_id)
                ELSE IF o = ObjSource THEN SourceImage(source_id)
                ELSE <<>>]
    /\ target = "" /\ changed = FALSE /\ rng = 1
    /\ raised = NoException /\ printed = <<>> /\ returned = <<>>
    /\ out_file = <<>> /\ validated = ""
    /\ CrcIdle
    /\ SpdIdle

\* patch lines 118-123: the working copy, the module type warning, the guard
Begin ==
    /\ pc = "call"
    /\ target' = BytearrayOf(ObjSelf)
    /\ mem' = [mem EXCEPT ![BytearrayOf(ObjSelf)] = mem[ObjSelf]]
    /\ printed' = IF At(mem[ObjSource], 3) # At(mem[ObjSelf], 3)
                  THEN Append(printed, ModuleTypeWarning(mem[ObjSource], mem[ObjSelf]))
                  ELSE printed
    /\ IF HptGuardRejects(args, mem[ObjSelf])
       THEN raised' = SystemExit(HptGuardMessage) /\ pc' = "done"
       ELSE raised' = raised /\ pc' = "named"
    /\ UNCHANGED <<target_id, source_id, args, changed, rng, returned, out_file,
                   validated>>
    /\ UNCHANGED <<crc_vars, spd_vars>>

\* patch lines 125-130
ApplyNamed ==
    /\ pc = "named"
    /\ LET res == NamedCopies(args, mem[target], mem[ObjSource])
       IN  /\ mem' = [mem EXCEPT ![target] = res.data]
           /\ changed' = res.changed
           /\ raised' = res.raised
           /\ pc' = IF res.raised # NoException THEN "done" ELSE "ranges"
    /\ UNCHANGED <<target_id, source_id, args, target, rng, printed, returned,
                   out_file, validated>>
    /\ UNCHANGED <<crc_vars, spd_vars>>

\* patch lines 131-137: one pass of the for loop
CopyRange ==
    /\ pc = "ranges"
    /\ rng <= Len(args.copy_range)
    /\ LET r == args.copy_range[rng]
           parsed == ParseRange(r)
       IN  CASE parsed.kind = "format" ->
                  /\ raised' = SystemExit("Invalid range format: " \o r)
                  /\ pc' = "done"
                  /\ UNCHANGED <<mem, changed, rng>>
             [] parsed.kind = "range" ->
                  /\ raised' = SystemExit("Invalid range: " \o r)
                  /\ pc' = "done"
                  /\ UNCHANGED <<mem, changed, rng>>
             [] OTHER ->
                  /\ mem' = [mem EXCEPT ![target] =
                               SliceAssign(@, parsed.start, parsed.end + 1,
                                           Slice(mem[ObjSource], parsed.start,
                                                 parsed.end + 1))]
                  /\ changed' = TRUE
                  /\ rng' = rng + 1
                  /\ UNCHANGED <<raised, pc>>
    /\ UNCHANGED <<target_id, source_id, args, target, printed, returned,
                   out_file, validated>>
    /\ UNCHANGED <<crc_vars, spd_vars>>

\* patch lines 139-141, after the loop
CheckChanged ==
    /\ pc = "ranges"
    /\ rng > Len(args.copy_range)
    /\ IF NothingSelected(changed)
       THEN /\ printed' = Append(printed, "Nothing selected to patch.")
            /\ raised' = SystemExit("1")
            /\ pc' = "done"
       ELSE /\ pc' = "crc"
            /\ UNCHANGED <<printed, raised>>
    /\ UNCHANGED <<target_id, source_id, args, mem, target, changed, rng,
                   returned, out_file, validated>>
    /\ UNCHANGED <<crc_vars, spd_vars>>

\* patch lines 143-144
CrcUpdate ==
    /\ pc = "crc"
    /\ mem' = IF _needs_base_crc_update(mem[ObjSelf], mem[ObjSelf], mem[target])
              THEN [mem EXCEPT ![target] = _rewrite_base_crc(mem[ObjSelf], @)]
              ELSE mem
    /\ pc' = "validate"
    /\ UNCHANGED <<target_id, source_id, args, target, changed, rng, raised,
                   printed, returned, out_file, validated>>
    /\ UNCHANGED <<crc_vars, spd_vars>>

\* patch lines 146-149 and cmd_patch lines 77-81: the call of the detection
\* with an argument it does not take raises; were it accepted, the detection
\* would read self.data, and a VALID status would return the working copy to
\* cmd_patch, which writes it to args.out
Validate ==
    /\ pc = "validate"
    /\ pc' = "done"
    /\ IF DetectArgsPassed # DetectParams
       THEN /\ raised' = DetectCallError
            /\ UNCHANGED <<printed, returned, out_file, validated>>
       ELSE /\ validated' = ObjSelf
            /\ IF StartsWith(_detect_base_crc(mem[ObjSelf]).status, "VALID")
               THEN /\ returned' = mem[target]
                    /\ out_file' = mem[target]
                    /\ printed' = Append(printed, "[OK] Wrote patched SPD to args.out")
                    /\ UNCHANGED raised
               ELSE /\ raised' = SystemExit("[ERROR] Post-patch CRC validation failed. Aborting write.")
                    /\ UNCHANGED <<printed, returned, out_file>>
    /\ UNCHANGED <<target_id, source_id, args, mem, target, changed, rng>>
    /\ UNCHANGED <<crc_vars, spd_vars>>

Next == Begin \/ ApplyNamed \/ CopyRange \/ CheckChanged \/ CrcUpdate \/ Validate

Spec == Init /\ [][Next]_vars

(***************************************************************************)
(* A decoder over one image: detection, rewriting, and a new decoder over  *)
(* the rewritten bytes.                                                    *)
(***************************************************************************)
InitCrc ==
    /\ crc_data \in CrcImages
    /\ crc_mut = crc_data
    /\ crc_prev = crc_data
    /\ crc_result = NoResult
    /\ rewrites = 0
    /\ PatchIdle
    /\ SpdIdle

\* result = decoder._detect_base_crc()
Detect ==
    /\ crc_result = NoResult
    /\ crc_result' = _detect_base_crc(crc_data)
    /\ UNCHANGED <<crc_data, crc_mut, crc_prev, rewrites>>
    /\ UNCHANGED <<patch_vars, spd_vars>>

\* decoder._rewrite_base_crc(spd_mut)
Rewrite ==
    /\ rewrites < MaxRewrites
    /\ crc_prev' = crc_mut
    /\ crc_mut' = _rewrite_base_crc(crc_data, crc_mut)
    /\ rewrites' = rewrites + 1
    /\ UNCHANGED <<crc_data, crc_result>>
    /\ UNCHANGED <<patch_vars, spd_vars>>

\* decoder = DDR3Decoder(bytes(spd_mut))
Reload ==
    /\ crc_mut # crc_data
    /\ crc_data' = crc_mut
    /\ crc_result' = NoResult
    /\ UNCHANGED <<crc_mut, crc_prev, rewrites>>
    /\ UNCHANGED <<patch_vars, spd_vars>>

NextCrc == Detect \/ Rewrite \/ Reload

SpecCrc == InitCrc /\ [][NextCrc]_vars

(***************************************************************************)
(* SPD(data): the length check, the choice of a decoder, the decode.       *)
(***************************************************************************)
InitDecode ==
    /\ spd_pc = "new"
    /\ spd_raw \in DecodeImages
    /\ spd_data = <<>> /\ spd_decoder = "" /\ spd_doc = <<>>
    /\ spd_raised = NoException
    /\ PatchIdle
    /\ CrcIdle

\* SPD.__init__ lines 28-36: the length check and the normalization
Construct ==
    /\ spd_pc = "new"
    /\ IF Len(spd_raw) < LegacySize
       THEN /\ spd_raised' = ValueError(TooShortMessage)
            /\ spd_pc' = "failed"
            /\ UNCHANGED spd_data
       ELSE /\ spd_data' = Normalize(spd_raw)
            /\ spd_pc' = "choose"
            /\ UNCHANGED spd_raised
    /\ UNCHANGED <<spd_raw, spd_decoder, spd_doc>>
    /\ UNCHANGED <<patch_vars, crc_vars>>

\* line 43: self.decoder = self._get_decoder_with_fallback()
ChooseDecoder ==
    /\ spd_pc = "choose"
    /\ \E chosen \in {_get_decoder_with_fallback(spd_data)} :
           IF chosen.ok
           THEN /\ spd_decoder' = chosen.decoder
                /\ spd_pc' = "decode"
                /\ UNCHANGED spd_raised
           ELSE /\ spd_raised' = chosen.exc
                /\ spd_pc' = "failed"
                /\ UNCHANGED spd_decoder
    /\ UNCHANGED <<spd_raw, spd_data, spd_doc>>
    /\ UNCHANGED <<patch_vars, crc_vars>>

\* line 44 with an SDRDecoder: self.decoded_data = self.decoder.decode()
DecodeSdr ==
    /\ spd_pc = "decode"
    /\ spd_decoder = "SDRDecoder"
    /\ spd_doc' = <<SdrDecode(spd_data)>>
    /\ spd_pc' = "done"
    /\ UNCHANGED <<spd_raw, spd_data, spd_decoder, spd_raised>>
    /\ UNCHANGED <<patch_vars, crc_vars>>

\* line 44 with a DDR3Decoder
DecodeDdr3 ==
    /\ spd_pc = "decode"
    /\ spd_decoder = "DDR3Decoder"
    /\ \E result \in {Ddr3Decode(spd_data)} :
           IF result.ok
           THEN /\ spd_doc' = <<result.doc>>
                /\ spd_pc' = "done"
                /\ UNCHANGED spd_raised
           ELSE /\ spd_raised' = result.exc
                /\ spd_pc' = "failed"
                /\ UNCHANGED spd_doc
    /\ UNCHANGED <<spd_raw, spd_data, spd_decoder>>
    /\ UNCHANGED <<patch_vars, crc_vars>>

NextDecode == Construct \/ ChooseDecoder \/ DecodeSdr \/ DecodeDdr3

SpecDecode == InitDecode /\ [][NextDecode]_vars

(***************************************************************************)
(* Properties of the patch command (Spec).                                 *)
(***************************************************************************)
\* no operation is selected: no block copy, no tag value, no id or
\* part-number copy, no byte range
EmptyRequest(req) ==
    /\ ~req.copy_vendor /\ ~req.copy_hpt /\ req.set_hpt = <<>>
    /\ ~req.copy_mfgid /\ ~req.copy_partnum /\ req.copy_range = <<>>

\* patch() has refused the request
Rejected == raised.type = "SystemExit"

\* nothing has come out of the call: no image returned, no file written
NoOutput == returned = <<>> /\ out_file = <<>>

\* the caller's images are what was loaded
InputsIntact ==
    /\ mem[ObjSelf] = TargetImage(target_id)
    /\ mem[ObjSource] = SourceImage(source_id)

\* C2: a request with no operation selected is rejected (the "Nothing
\* selected" exit): no image is returned and the target's bytes are as they
\* were before the call.
C2_EmptyRequestRejected ==
    EmptyRequest(args) =>
        /\ NoOutput
        /\ mem[ObjSelf] = TargetImage(target_id)
        /\ pc = "done" =>
              /\ raised = SystemExit("1")
              /\ Len(printed) > 0
              /\ printed[Len(printed)] = "Nothing selected to patch."

C2_Witness ==
    /\ pc = "done" /\ EmptyRequest(args) /\ Rejected
    /\ mem[ObjNew] = TargetImage(target_id)

\* some requested range START:END parses and violates 0 <= START <= END <= 255
HasBadRange(req) ==
    \E j \in 1..Len(req.copy_range) :
        LET parts == SplitColon(req.copy_range[j])
        IN  /\ Len(parts) = 2
            /\ IntBase0(parts[1]).ok /\ IntBase0(parts[2]).ok
            /\ ~(/\ 0 <= IntBase0(parts[1]).val
                 /\ IntBase0(parts[1]).val <= IntBase0(parts[2]).val
                 /\ IntBase0(parts[2]).val <= 255)

InvalidRangeReason == Rejected /\ StartsWith(raised.arg, "Invalid range")

\* C3 as stated: every request with a range violating 0 <= START <= END <= 255
\* ends rejected with an invalid-range reason, no image returned and the
\* target unchanged.
C3_AsStated ==
    (HasBadRange(args) /\ pc = "done") =>
        InvalidRangeReason /\ NoOutput /\ mem[ObjSelf] = TargetImage(target_id)

\* an earlier check of the same request fails: the guard of the tag block, or
\* the length check of an explicit tag value
EarlierCheckFails(req, tgt) ==
    \/ (req.copy_hpt \/ Len(req.set_hpt) > 0)
       /\ ~StartsWith(_decode_jep106(At(tgt, 117), At(tgt, 118)), "HP")
       /\ ~req.force
    \/ Len(req.set_hpt) \notin {0, 4}

\* C3, amended: a request with a range violating 0 <= START <= END <= 255
\* never yields an image and leaves the target unchanged, whatever was already
\* applied to the working copy; it ends with an exception, which is the
\* invalid-range rejection unless an earlier check of the same request (the
\* tag-block guard, the tag length check) has failed first.
C3_BadRangeRejected ==
    HasBadRange(args) =>
        /\ NoOutput
        /\ mem[ObjSelf] = TargetImage(target_id)
        /\ pc = "done" =>
              /\ raised.type \in {"SystemExit", "ValueError"}
              /\ ~EarlierCheckFails(args, TargetImage(target_id))
                    => InvalidRangeReason

C3_Witness ==
    /\ pc = "done" /\ HasBadRange(args)
    /\ raised = SystemExit("Invalid range: 300:310")
    /\ changed
    /\ rng = 2
    /\ mem[ObjNew] # mem[ObjSelf]
    /\ mem[ObjSelf] = TargetImage(target_id)

\* the manufacturer id at bytes 117..118 is one of the registry's HP entries
HpFamily(img) ==
    LET key == <<At(img, 117) % 128, At(img, 118)>>
    IN  /\ key \in DOMAIN JEP106_MAP
        /\ JEP106_MAP[key] \in {"HP Inc.", "Hewlett-Packard (HP)"}

\* copy of bytes 176..255, copy of bytes 176..183, or an explicit 4-byte tag
VendorBlockOp(req) == req.copy_vendor \/ req.copy_hpt \/ Len(req.set_hpt) = 4

\* copy of bytes 176..183, or an explicit tag value
TagBlockOp(req) == req.copy_hpt \/ Len(req.set_hpt) > 0

GuardRejection == raised = SystemExit(HptGuardMessage)

\* C4 as stated: a request with a vendor-block operation (copy of 176..255,
\* copy of 176..183, or an explicit 4-byte tag) against a target outside the
\* HP family and without force ends rejected, with no image returned.
C4_AsStated ==
    (/\ pc = "done" /\ VendorBlockOp(args)
     /\ ~HpFamily(TargetImage(target_id)) /\ ~args.force)
        => Rejected /\ NoOutput

\* C4, amended: a request with a tag-block operation (copy of 176..183, or an
\* explicit tag value) against a target outside the HP family is rejected by
\* the guard, before any copy and with no image returned, unless force is
\* set; with force, or with the copy of 176..255 as the only vendor-block
\* operation, the guard rejects nothing.
C4_TagBlockGuarded ==
    /\ (TagBlockOp(args) /\ ~HpFamily(TargetImage(target_id)) /\ ~args.force)
          => /\ NoOutput
             /\ pc \in {"call", "done"}
             /\ pc = "done" => GuardRejection /\ mem[ObjNew] = mem[ObjSelf]
    /\ (args.force \/ ~TagBlockOp(args)) => ~GuardRejection

C4_Witness ==
    /\ pc = "done" /\ GuardRejection
    /\ ~HpFamily(TargetImage(target_id))
    /\ Len(args.set_hpt) = 4 /\ ~args.copy_hpt /\ ~args.force
    /\ mem[ObjNew] = mem[ObjSelf]

\* C5: patch never writes its inputs. In every state of every call the source
\* bytes and the target bytes are those loaded, the only object written is
\* the working copy made by the call, and once the call has raised nothing
\* has been returned and no output file exists.
C5_InputsNeverWritten ==
    /\ InputsIntact
    /\ target \in {"", ObjNew}
    /\ raised # NoException => NoOutput

C5_Witness ==
    /\ pc = "done" /\ Rejected /\ NoOutput
    /\ mem[ObjNew] # mem[ObjSelf]
    /\ InputsIntact

\* C6: the steps of one call are ordered. The checksum is recomputed only
\* after every requested copy, and a call that no check has rejected has had
\* its final validation evaluated, on the working copy.
C6_ValidationOnWorkingCopy ==
    /\ pc \in {"crc", "validate"} => changed /\ rng > Len(args.copy_range)
    /\ (pc = "done" /\ raised.type \notin {"SystemExit", "ValueError"})
          => validated = target

(***************************************************************************)
(* Properties of checksum detection and rewriting (SpecCrc).               *)
(***************************************************************************)
\* the last byte of the window byte 0 declares, and of the other window
DeclaredEnd(img) == IF Bit(At(img, 0), 7) = 0 THEN 125 ELSE 116

OtherEnd(img) == IF Bit(At(img, 0), 7) = 0 THEN 116 ELSE 125

\* the little-endian value at bytes 126..127
StoredValue(img) == At(img, 126) + 256 * At(img, 127)

\* the registry positions of the variants that, computed over bytes 0..last,
\* equal the stored value
Matching(img, last) ==
    {m \in 1..Len(CRC16_VARIANTS) :
        CrcOf(CRC16_VARIANTS[m], SubSeq(img, 1, last + 1)) = StoredValue(img)}

Detected == crc_result # NoResult

\* C7: detection classifies every image. The status is VALID iff a variant
\* over the declared window (0..125 when bit 7 of byte 0 is clear, else
\* 0..116) equals the stored value; otherwise it is the alternate-coverage
\* status iff a variant over the other window does; otherwise INVALID, with
\* the XMODEM value over the declared window reported as computed.
C7_DetectionClassifies ==
    Detected =>
        LET dec == Matching(crc_data, DeclaredEnd(crc_data))
            oth == Matching(crc_data, OtherEnd(crc_data))
        IN  /\ crc_result.stored = StoredValue(crc_data)
            /\ crc_result.status =
                  IF dec # {} THEN "VALID"
                  ELSE IF oth # {} THEN "VALID (alternate coverage)"
                  ELSE "INVALID"
            /\ crc_result.coverage =
                  "0.." \o ToString(IF dec = {} /\ oth # {}
                                    THEN OtherEnd(crc_data)
                                    ELSE DeclaredEnd(crc_data))
            /\ crc_result.coverage_match = (dec # {})
            /\ (dec = {} /\ oth = {}) =>
                  crc_result.computed =
                      CrcOf(CRC16_VARIANTS[1],
                            SubSeq(crc_data, 1, DeclaredEnd(crc_data) + 1))

C7_Witness ==
    /\ Detected
    /\ crc_result.status = "VALID (alternate coverage)"
    /\ Bit(At(crc_data, 0), 7) = 1
    /\ crc_result.coverage = "0..125"

\* C8: an image whose bytes 126..127 hold a registered variant computed over
\* the declared window is detected VALID with the declared coverage, and the
\* variant reported is the first of the registry that matches (the variant
\* itself when it alone matches).
C8_AuthoredVariantDetected ==
    LET dec == Matching(crc_data, DeclaredEnd(crc_data))
    IN  (Detected /\ dec # {}) =>
            /\ crc_result.status = "VALID"
            /\ crc_result.coverage = "0.." \o ToString(DeclaredEnd(crc_data))
            /\ crc_result.coverage_match
            /\ \E m \in dec :
                  /\ \A o \in dec : m <= o
                  /\ crc_result.variant = CRC16_VARIANTS[m].name

C8_Witness ==
    /\ Detected
    /\ Cardinality(Matching(crc_data, DeclaredEnd(crc_data))) > 1
    /\ crc_result.status = "VALID"
    /\ crc_result.variant = "XMODEM"

\* C9: a rewrite changes no byte other than 126 and 127, a second rewrite
\* changes nothing, and detection on the rewritten image is VALID.
C9_RewriteThenDetectValid ==
    /\ rewrites >= 1 =>
          /\ Len(crc_mut) = Len(crc_prev)
          /\ \A j \in 1..Len(crc_mut) :
                (j - 1) \notin {126, 127} => crc_mut[j] = crc_prev[j]
    /\ rewrites >= 2 => crc_mut = crc_prev
    /\ (rewrites >= 1 /\ crc_data = crc_mut /\ Detected)
          => crc_result.status = "VALID"

C9_Witness ==
    /\ rewrites = 2 /\ crc_mut = crc_prev
    /\ crc_data = crc_mut /\ Detected
    /\ crc_result.status = "VALID"
    /\ crc_result.variant = "XMODEM"
    /\ crc_result.coverage = "0..116"

(***************************************************************************)
(* Properties of the decoders (SpecDecode).                                *)
(***************************************************************************)
\* SPD() has returned, with a decoder of the class named
Decoded(class) == spd_pc = "done" /\ spd_decoder = class

\* a document value in thousandths: the integer nearest to 1000 * x
Thousandths(x) ==
    x.sg * BnToNat(FNearest([sg |-> 1, m |-> BnMulSmall(x.m, 1000), ex |-> x.ex]))

\* the count c with c * t >= n and (c - 1) * t < n, for t > 0 and n >= 0
CeilDiv(n, t) == (n + t - 1) \div t

\* the four counts the ceiling law gives for the timings ns (a record with
\* tAAmin, tRCDmin, tRPmin, tRASmin) at a clock period of t thousandths,
\* and zeros when t <= 0
LawCounts(ns, t) ==
    IF t > 0
    THEN [CL |-> CeilDiv(Thousandths(ns.tAAmin), t),
          tRCD |-> CeilDiv(Thousandths(ns.tRCDmin), t),
          tRP |-> CeilDiv(Thousandths(ns.tRPmin), t),
          tRAS |-> CeilDiv(Thousandths(ns.tRASmin), t)]
    ELSE [CL |-> 0, tRCD |-> 0, tRP |-> 0, tRAS |-> 0]

\* f"{cl}-{trcd}-{trp}-{tras}"
Dashed(counts) ==
    ToString(counts.CL) \o "-" \o ToString(counts.tRCD) \o "-"
    \o ToString(counts.tRP) \o "-" \o ToString(counts.tRAS)

\* the reference clock period, in thousandths, of the down-bin entry named
BinClock(speed_name) ==
    LET bin == CHOOSE b \in {jedec_speeds[j] : j \in 1..Len(jedec_speeds)} :
                   "DDR3-" \o ToString(b.speed) = speed_name
    IN  Thousandths(bin.tck)

\* C11: in a DDR3 document every cycle count is the ceiling of its timing
\* over the clock period (c * tCK >= ns and (c - 1) * tCK < ns), at the
\* native clock, at each down-bin clock and in each overclock profile, and
\* every count is 0 when the clock period is not positive.  The timings and
\* periods are the document's, in thousandths of a nanosecond.
C11_CeilingLaw ==
    Decoded("DDR3Decoder") =>
        LET doc == spd_doc[1]
        IN  /\ doc.timings_clocks
                   = LawCounts(doc.timings_ns, Thousandths(doc.timings_ns.tCKmin))
            /\ \A j \in 1..Len(doc.jedec_downbins) :
                   doc.jedec_downbins[j].timings
                       = Dashed(LawCounts(doc.timings_ns,
                                          BinClock(doc.jedec_downbins[j].speed)))
            /\ "xmp_profiles_detailed" \in DOMAIN doc =>
                   \A j \in 1..Len(doc.xmp_profiles_detailed) :
                       LET pr == doc.xmp_profiles_detailed[j]
                       IN  pr.timings
                               = Dashed(LawCounts(pr.timings_ns,
                                                  Thousandths(pr.timings_ns.tCKmin)))

\* C12: in an SDR document the tRCD, tRP, tRAS and tRRD counts of every
\* derived profile are the ceiling of the timing over the profile's clock
\* period, so that count * tCK >= timing.
C12_SdrCountsAreCeilings ==
    Decoded("SDRDecoder") =>
        LET doc == spd_doc[1]
        IN  \A j \in 1..Len(doc.derived.profiles) :
                LET pr  == doc.derived.profiles[j]
                    tck == Thousandths(pr.tCK_ns)
                IN  /\ pr.tRCD = CeilDiv(Thousandths(doc.timings_ns.tRCD_min_ns), tck)
                    /\ pr.tRP = CeilDiv(Thousandths(doc.timings_ns.tRP_min_ns), tck)
                    /\ pr.tRAS = CeilDiv(Thousandths(doc.timings_ns.tRAS_min_ns), tck)
                    /\ pr.tRRD = CeilDiv(Thousandths(doc.timings_ns.tRRD_min_ns), tck)

\* the module-type sections of a document, told apart by what they carry:
\* the Registered one has row and register counts and a heat-spreader flag,
\* the LoadReduced one a personality-byte block
HasUnbuffered(doc) == "unbuffered_info" \in DOMAIN doc

HasRegistered(doc) ==
    /\ "registered_info" \in DOMAIN doc
    /\ {"dram_rows", "registers", "heat_spreader"} \subseteq DOMAIN doc.registered_info

HasLoadReduced(doc) ==
    /\ "registered_info" \in DOMAIN doc
    /\ "personality_bytes" \in DOMAIN doc.registered_info

\* C13: with module-type byte 0x0B the document has the LoadReduced section
\* (manufacturer id of bytes 60..61, revision of byte 62, the personality
\* bytes 102..114) and neither an Unbuffered nor a Registered section; for
\* every module-type byte a section is present only for a type of its own
\* family, and decoding a full-size image does not fail.
C13_ModuleSections ==
    /\ spd_decoder = "DDR3Decoder" /\ Len(spd_data) = FullSize => spd_pc # "failed"
    /\ Decoded("DDR3Decoder") =>
           LET doc == spd_doc[1]
               mt  == At(spd_data, 3)
           IN  /\ mt = 11 =>
                      /\ HasLoadReduced(doc)
                      /\ doc.registered_info.mfg_id
                             = _decode_jep106(At(spd_data, 60), At(spd_data, 61))
                      /\ doc.registered_info.revision = At(spd_data, 62)
                      /\ doc.registered_info.personality_bytes
                             = SubSeq(spd_data, 103, 115)
                      /\ ~HasUnbuffered(doc)
                      /\ ~HasRegistered(doc)
               /\ HasUnbuffered(doc) => mt \in UnbufferedTypes
               /\ HasRegistered(doc) => mt \in RdimmTypes
               /\ HasLoadReduced(doc) => mt = LrdimmType

\* a LoadReduced image has been decoded
C13_Witness ==
    /\ Decoded("DDR3Decoder")
    /\ At(spd_data, 3) = 11
    /\ HasLoadReduced(spd_doc[1])
    /\ spd_doc[1].registered_info.personality_bytes
           = <<1, 2, 3, 4, 5, 6, 7, 8, 9, 10, 11, 12, 13>>

TooShort(raw) ==
    \/ Len(raw) < LegacySize
    \/ Len(raw) < FullSize /\ At(raw, 2) = MEM_DDR3

\* C15: from a buffer too short for the format it claims no document is
\* produced: fewer than 128 bytes are refused by the constructor, and 128 to
\* 255 bytes whose byte 2 claims DDR3 make the decode raise at the first byte
\* it misses; the missing bytes are never read as zero.
C15_ShortBufferRejected ==
    TooShort(spd_raw) =>
        /\ spd_doc = <<>>
        /\ spd_pc # "done"
        /\ spd_pc = "failed" =>
               spd_raised.type = IF Len(spd_raw) < LegacySize THEN "ValueError"
                                 ELSE "IndexError"

\* a 128-byte image claiming DDR3 has been refused by the decode
C15_Witness ==
    /\ Len(spd_raw) \in LegacySize..(FullSize - 1)
    /\ At(spd_raw, 2) = MEM_DDR3
    /\ spd_decoder = "DDR3Decoder"
    /\ spd_pc = "failed"
    /\ spd_raised = IndexError
    /\ spd_doc = <<>>

\* the normalized image names neither SDR nor DDR3 in byte 2
UnknownType == spd_data # <<>> /\ At(spd_data, 2) \notin {MEM_SDR, MEM_DDR3}

\* C16: with a memory-type byte that is neither SDR nor DDR3, a normalized
\* image of 256 bytes makes the construction fail with the unsupported-type
\* error and no document, and one of 128 bytes is decoded by the SDR decoder,
\* which always returns a document.
C16_UnknownMemoryType ==
    UnknownType =>
        IF Len(spd_data) = FullSize
        THEN /\ spd_pc \in {"choose", "failed"}
             /\ spd_doc = <<>>
             /\ spd_pc = "failed" =>
                    spd_raised = NotImplementedError(UnsupportedMessage(spd_data))
        ELSE /\ Len(spd_data) = LegacySize
             /\ spd_pc \in {"choose", "decode", "done"}
             /\ spd_raised = NoException
             /\ spd_pc # "choose" => spd_decoder = "SDRDecoder"
             /\ spd_pc = "done" => spd_doc = <<SdrDecode(spd_data)>>

\* a 128-byte image of an unknown memory type has been decoded as SDR
C16_Witness ==
    /\ UnknownType
    /\ Len(spd_data) = LegacySize
    /\ spd_pc = "done"
    /\ spd_decoder = "SDRDecoder"
    /\ "warnings" \in DOMAIN spd_doc[1]

\* the identification fields a document shows as missing or zero: no
\* maker, no part number, a serial number of zeros
MissingIds(class, data) ==
    IF class = "SDRDecoder"
    THEN (IF At(data, 64) = 0 /\ At(data, 65) = 0 THEN {"maker"} ELSE {})
         \cup (IF PartNumberText(Slice(data, 73, 91)) = <<>> THEN {"part"} ELSE {})
         \cup (IF Slice(data, 95, 99) = <<0, 0, 0, 0>> THEN {"serial"} ELSE {})
    ELSE (IF At(data, 117) = 0 /\ At(data, 118) = 0 THEN {"maker"} ELSE {})
         \cup (IF ModulePartNumber(data) = <<>> THEN {"part"} ELSE {})
         \cup (IF Slice(data, 122, 126) = <<0, 0, 0, 0>> THEN {"serial"} ELSE {})

\* the warning for each field
IdWarning(field) ==
    CASE field = "maker" -> "Manufacturing block is missing a JEDEC ID."
      [] field = "part" -> "Manufacturing block is missing a Part Number."
      [] OTHER -> "Serial number is all zeros."

\* C17: every document decode returns, SDR or DDR3, carries a warnings list,
\* and the list has a warning for each identification field that is missing
\* or zero (maker, part number, serial number).
C17_WarningsForMissingIds ==
    spd_pc = "done" =>
        /\ "warnings" \in DOMAIN spd_doc[1]
        /\ \A field \in MissingIds(spd_decoder, spd_data) :
               \E j \in 1..Len(spd_doc[1].warnings) :
                   spd_doc[1].warnings[j] = IdWarning(field)

\* 2000 / tCK rounded half up, for a clock period of t thousandths of a
\* nanosecond: floor(2000000 / t + 1/2), and 0 when t <= 0
RateHalfUp(t) == IF t > 0 THEN (4000000 + t) \div (2 * t) ELSE 0

\* C18: the data rate of a DDR3 document and of each of its overclock
\* profiles is 2000 / tCK rounded half up (a quotient ending in .5 goes to
\* the next integer), and 0 when tCK <= 0.
C18_DataRateHalfUp ==
    Decoded("DDR3Decoder") =>
        LET doc == spd_doc[1]
        IN  /\ doc.max_data_rate_MTps = RateHalfUp(Thousandths(doc.timings_ns.tCKmin))
            /\ "xmp_profiles_detailed" \in DOMAIN doc =>
                   \A j \in 1..Len(doc.xmp_profiles_detailed) :
                       doc.xmp_profiles_detailed[j].data_rate_MTps
                           = RateHalfUp(Thousandths(
                                 doc.xmp_profiles_detailed[j].timings_ns.tCKmin))

\* the base timings of a document as the timebases give them, in
\* thousandths of a nanosecond per unit: raw * MTB + s8(correction) * FTB
\* with MTB = mtb1000 / 1000 ns and FTB = ftb / ftbdiv ps
StatedThousandths(raw, corr, mtb1000, ftb, ftbdiv) ==
    LET fine == _s8(corr) * ftb
    IN  raw * mtb1000 + (IF fine >= 0 THEN (2 * fine + ftbdiv) \div (2 * ftbdiv)
                          ELSE 0 - ((2 * (0 - fine) + ftbdiv) \div (2 * ftbdiv)))

\* the medium timebase as stated, in thousandths of a nanosecond: byte 10
\* over byte 11 when both are non-zero, and 1 ns when either is 0
StatedMtb1000(data) ==
    IF At(data, 10) # 0 /\ At(data, 11) # 0
    THEN (2000 * At(data, 10) + At(data, 11)) \div (2 * At(data, 11))
    ELSE 1000

\* C19: each base timing of a DDR3 document is raw * MTB + s8(correction)
\* * FTB, with MTB = byte 10 / byte 11 when both are non-zero and 1
\* whenever either is 0, and FTB = (high nibble of byte 9) / (low nibble) ps
\* when the low nibble is non-zero and 1 ps when it is 0.  Values in
\* thousandths of a nanosecond, as the document shows them.
C19_TimebaseFormula ==
    Decoded("DDR3Decoder") =>
        LET doc == spd_doc[1]
            mtb == StatedMtb1000(spd_data)
            lo  == At(spd_data, 9) % 16
            ftb == IF lo # 0 THEN At(spd_data, 9) \div 16 ELSE 1
            div == IF lo # 0 THEN lo ELSE 1
            T(raw_at, corr_at) ==
                StatedThousandths(At(spd_data, raw_at), At(spd_data, corr_at),
                                  mtb, ftb, div)
        IN  /\ Thousandths(doc.timings_ns.tCKmin) = T(12, 34)
            /\ Thousandths(doc.timings_ns.tAAmin) = T(16, 35)
            /\ Thousandths(doc.timings_ns.tRCDmin) = T(18, 36)
            /\ Thousandths(doc.timings_ns.tRPmin) = T(20, 37)

\* the reference speeds with their clock periods in thousandths of a
\* nanosecond, ascending
ReferenceBins ==
    <<[speed |-> 800, period |-> 2500], [speed |-> 1066, period |-> 1875],
      [speed |-> 1333, period |-> 1500], [speed |-> 1600, period |-> 1250],
      [speed |-> 1866, period |-> 1070], [speed |-> 2133, period |-> 937]>>

\* C20: the down-bin list of a DDR3 document has one entry for each
\* reference speed strictly below the native data rate, in ascending order,
\* and none at or above it; the CL, tRCD, tRP and tRAS of an entry are the
\* ceilings of the document's timings over the reference clock period.
C20_DownbinList ==
    Decoded("DDR3Decoder") =>
        LET doc   == spd_doc[1]
            below == SelectSeq(ReferenceBins,
                               LAMBDA b : b.speed < doc.max_data_rate_MTps)
        IN  /\ Len(doc.jedec_downbins) = Len(below)
            /\ \A j \in 1..Len(below) :
                   /\ doc.jedec_downbins[j].speed = "DDR3-" \o ToString(below[j].speed)
                   /\ doc.jedec_downbins[j].timings
                          = Dashed(LawCounts(doc.timings_ns, below[j].period))

\* a DDR3-1600 module with tAA, tRCD and tRP of 13.75 ns and tRAS of 35 ns
\* has been decoded: three down-bins, the last at 1.5 ns
C20_Witness ==
    /\ Decoded("DDR3Decoder")
    /\ spd_doc[1].max_data_rate_MTps = 1600
    /\ Len(spd_doc[1].jedec_downbins) = 3
    /\ spd_doc[1].jedec_downbins[3]
           = [speed |-> "DDR3-1333", timings |-> "10-10-10-24"]

(***************************************************************************)
(* Properties of the overclock profiles (SpecDecode).                      *)
(***************************************************************************)
\* the detailed profiles of the document decoded, none without the section
DetailedProfiles ==
    IF Decoded("DDR3Decoder") /\ "xmp_profiles_detailed" \in DOMAIN spd_doc[1]
    THEN spd_doc[1].xmp_profiles_detailed ELSE <<>>

\* the timebase of profile idx as the fraction <<dividend, divisor>> of a
\* nanosecond: header bytes 180..183, or bytes 10..11 when the divisor is 0
ProfileTimebase(data, idx) ==
    IF At(data, 179 + 2 * idx) = 0
    THEN <<OrOne(At(data, 10)), OrOne(At(data, 11))>>
    ELSE <<At(data, 178 + 2 * idx), At(data, 179 + 2 * idx)>>

\* the raw mode byte scaled by (timebase / clock period), as the fraction
\* num / den, with the clock period in thousandths of a nanosecond
ScaledNum(data, pr) ==
    pr.raw.cmd_rate_mode_raw * ProfileTimebase(data, pr.profile)[1] * 1000

ScaledDen(data, pr) ==
    ProfileTimebase(data, pr.profile)[2] * Thousandths(pr.timings_ns.tCKmin)

\* the integers nearest to num / den: two of them at an exact half
Nearest(num, den) ==
    IF 2 * (num % den) < den THEN {num \div den}
    ELSE IF 2 * (num % den) > den THEN {(num \div den) + 1}
    ELSE {num \div den, (num \div den) + 1}

\* C21 as stated: a profile's command rate is reported as 1 or 2 only when
\* the raw mode byte scaled by (timebase / clock period) is exactly 1 or
\* exactly 2, and as unknown for any other scaled value, for a mode byte of
\* 0 and for a clock period of 0.
C21_AsStated ==
    \A j \in 1..Len(DetailedProfiles) :
        LET pr  == DetailedProfiles[j]
            num == ScaledNum(spd_data, pr)
            den == ScaledDen(spd_data, pr)
        IN  pr.command_rate_T =
                IF pr.raw.cmd_rate_mode_raw # 0 /\ den > 0 /\ num = den THEN <<1>>
                ELSE IF pr.raw.cmd_rate_mode_raw # 0 /\ den > 0 /\ num = 2 * den
                THEN <<2>>
                ELSE <<>>

\* C21, amended: the scaled value is rounded to the nearest integer first. A
\* profile's command rate is 1 or 2 when the mode byte is not 0, the clock
\* period is positive and the scaled value is nearer to 1 or to 2 than to any
\* other integer; it is unknown for a mode byte of 0, for a clock period of 0
\* and when the scaled value is nearer to another integer; at an exact half
\* it is the outcome of one of the two neighbours.  The simplified list
\* repeats the value, with "N/A" for unknown.
C21_CommandRateRounded ==
    \A j \in 1..Len(DetailedProfiles) :
        LET pr  == DetailedProfiles[j]
            num == ScaledNum(spd_data, pr)
            den == ScaledDen(spd_data, pr)
        IN  /\ IF pr.raw.cmd_rate_mode_raw = 0 \/ den <= 0
               THEN pr.command_rate_T = <<>>
               ELSE pr.command_rate_T
                        \in {IF n \in {1, 2} THEN <<n>> ELSE <<>> : n \in Nearest(num, den)}
            /\ spd_doc[1].xmp_profiles[j].command_rate_T
                   = IF pr.command_rate_T = <<>> THEN "N/A" ELSE pr.command_rate_T[1]

\* a document whose first profile scales to exactly 2 and whose second
\* scales to 16/6, and one whose second profile scales to 8/7 and reports 1
C21_Witness ==
    /\ Len(DetailedProfiles) = 2
    /\ \/ /\ DetailedProfiles[1].command_rate_T = <<2>>
          /\ DetailedProfiles[2].command_rate_T = <<>>
          /\ DetailedProfiles[2].raw.cmd_rate_mode_raw = 16
       \/ /\ DetailedProfiles[2].command_rate_T = <<1>>
          /\ ScaledNum(spd_data, DetailedProfiles[2])
                 # ScaledDen(spd_data, DetailedProfiles[2])

\* C22: the BCD conversion returns a value in 0..99 for every byte, and the
\* signed-byte conversion a value in -128..127: for each image decoded, the
\* year and the week converted from bytes 120..121 (DDR3) or 93..94 (SDR)
\* lie in 0..99, and the fine corrections converted from bytes 34..38 lie in
\* -128..127.
C22_ConversionRanges ==
    /\ Decoded("DDR3Decoder") =>
           /\ _bcd_to_int(At(spd_data, 120)) \in 0..99
           /\ _bcd_to_int(At(spd_data, 121)) \in 0..99
           /\ \A j \in 34..38 : _s8(At(spd_data, j)) \in -128..127
    /\ Decoded("SDRDecoder") =>
           \A j \in 93..94 :
               (At(spd_data, j) % 16) + 10 * ((At(spd_data, j) \div 16) % 16) \in 0..99

(***************************************************************************)
(* The generic checksum against the reference algorithms (SpecCrc).        *)
(***************************************************************************)
\* the polynomial with its 16 bits in reverse order
ReversedPoly(poly) ==
    LET rev[i \in Nat] ==
            IF i > 15 THEN 0
            ELSE ((poly \div (2 ^ i)) % 2) * (2 ^ (15 - i)) + rev[i + 1]
    IN  rev[0]

\* the LSB-first checksum: the byte is XORed into the low end of the
\* register, which moves right eight times, the reversed polynomial being
\* XORed in whenever a 1 leaves it
RECURSIVE LsbFirstBits(_, _, _)
LsbFirstBits(reg, rpoly, n) ==
    IF n = 0 THEN reg
    ELSE LsbFirstBits(IF reg % 2 = 1 THEN BitXor(reg \div 2, rpoly) ELSE reg \div 2,
                      rpoly, n - 1)

\* the bytes at offsets lo..hi-1, in order
LsbFirstBytes(data, init, rpoly) ==
    LET loop[lo \in Nat, hi \in Nat, reg \in Nat] ==
            IF hi <= lo THEN reg
            ELSE IF hi = lo + 1 THEN LsbFirstBits(BitXor(reg, data[hi]), rpoly, 8)
            ELSE loop[(lo + hi) \div 2, hi, loop[lo, (lo + hi) \div 2, reg]]
    IN  loop[0, Len(data), init]

\* the reference checksum of variant v: XMODEM is MSB-first with polynomial
\* 0x1021 and initial value 0; the others are LSB-first
ReferenceCrc(v, data) ==
    IF v.name = "XMODEM" THEN crc16_xmodem(data)
    ELSE BitXor(LsbFirstBytes(data, v.init, ReversedPoly(v.poly)), v.xorout)

\* the byte strings the checksum is computed over: both coverage windows of
\* the decoder's image and of the image being rewritten
CrcInputs ==
    {SubSeq(img, 1, n) : img \in {crc_data, crc_mut}, n \in {117, 126}}

\* C23: for every registered variant, the generic checksum of every input is
\* in 0..0xFFFF and equals the reference checksum of that variant: XMODEM is
\* MSB-first with polynomial 0x1021 and initial value 0; MODBUS, X25, KERMIT
\* and the JEDEC-standard variant are LSB-first with the bit-reversed
\* polynomial and the variant's initial value and final XOR.
C23_GenericMatchesReference ==
    \A m \in 1..Len(CRC16_VARIANTS) : \A data \in CrcInputs :
        /\ CrcOf(CRC16_VARIANTS[m], data) \in 0..65535
        /\ CrcOf(CRC16_VARIANTS[m], data) = ReferenceCrc(CRC16_VARIANTS[m], data)

\* an image whose stored value was found to be the LSB-first KERMIT checksum
\* of its declared window, rewritten to hold the XMODEM one
C23_Witness ==
    /\ Detected /\ crc_result.status = "VALID" /\ crc_result.variant = "KERMIT"
    /\ crc_result.stored
           = ReferenceCrc(VariantNamed("KERMIT"),
                          SubSeq(crc_data, 1, DeclaredEnd(crc_data) + 1))
    /\ crc_result.stored # 0
    /\ rewrites > 0 /\ crc_mut # crc_prev
    /\ StoredValue(crc_mut)
           = crc16_xmodem(SubSeq(crc_mut, 1, DeclaredEnd(crc_data) + 1))

(***************************************************************************)
(* The module-type sections of a DDR3 document (SpecDecode).               *)
(***************************************************************************)
HasMechanical(doc) ==
    /\ "mechanical_info" \in DOMAIN doc
    /\ {"nominal_height", "max_thickness_front", "max_thickness_back",
        "ref_raw_card_rev", "rank_1_mapping_mirrored"}
           \subseteq DOMAIN doc.mechanical_info

HasBuffered(doc) == "registered_info" \in DOMAIN doc

\* C24: in every DDR3 document with an Unbuffered or a Registered section
\* the shared mechanical section (nominal height, thickness, reference raw
\* card, rank-1 mirroring) is present as well, and the Unbuffered and the
\* Registered/LoadReduced section are never both present.
C24_MechanicalWithSections ==
    Decoded("DDR3Decoder") =>
        /\ (HasUnbuffered(spd_doc[1]) \/ HasBuffered(spd_doc[1]))
               => HasMechanical(spd_doc[1])
        /\ ~(HasUnbuffered(spd_doc[1]) /\ HasBuffered(spd_doc[1]))

(***************************************************************************)
(* The list of undecoded gaps of a DDR3 document (SpecDecode).             *)
(***************************************************************************)
\* the offsets inside one of the ranges of the list
InGap(gaps) ==
    {o \in 0..255 : \E j \in 1..Len(gaps) : gaps[j][1] <= o /\ o <= gaps[j][2]}

\* the offsets claimed by a known field: the general, timing, manufacturing
\* and checksum fields, the module-specific fields of the module type, and
\* the vendor region when the document has an overclock header or a tag
ClaimedOffsets(d, doc) ==
    (0..32) \cup (34..38) \cup (117..149)
    \cup (IF HasUnbuffered(doc) THEN 60..63 ELSE {})
    \cup (IF HasBuffered(doc) /\ At(d, 3) # LrdimmType THEN 60..77 ELSE {})
    \cup (IF HasBuffered(doc) /\ At(d, 3) = LrdimmType
          THEN (60..62) \cup (102..115) ELSE {})
    \cup (IF "xmp_header" \in DOMAIN doc \/ doc.hpt_info.present
          THEN 176..255 ELSE {})

\* C25: the gap list of a DDR3 document is a list of inclusive ranges in
\* ascending order, disjoint and never adjacent, whose union is the set of
\* offsets 0..255 no known field claims; the checksum bytes 126..127 are in
\* no gap, and the region 176..255 is claimed as a whole exactly when an
\* overclock header or a vendor tag is present.
C25_GapList ==
    Decoded("DDR3Decoder") =>
        LET doc  == spd_doc[1]
            gaps == doc.undecoded_gaps
        IN  /\ \A j \in 1..Len(gaps) : gaps[j][1] <= gaps[j][2]
            /\ \A j \in 1..(Len(gaps) - 1) : gaps[j][2] + 1 < gaps[j + 1][1]
            /\ InGap(gaps) = (0..255) \ ClaimedOffsets(spd_data, doc)
            /\ InGap(gaps) \cap (126..127) = {}
            /\ (InGap(gaps) \cap (176..255) = {})
                   <=> ("xmp_header" \in DOMAIN doc \/ doc.hpt_info.present)
            /\ InGap(gaps) \cap (176..255) \in {{}, 176..255}

\* an unbuffered module with a vendor tag and no overclock header: the gaps
\* are 33, 39..59, 64..116 and 150..175
C25_Witness ==
    /\ Decoded("DDR3Decoder")
    /\ spd_doc[1].hpt_info.present /\ "xmp_header" \notin DOMAIN spd_doc[1]
    /\ spd_doc[1].undecoded_gaps = <<<<33, 33>>, <<39, 59>>, <<64, 116>>, <<150, 175>>>>

(***************************************************************************)
(* Further properties of patch (Spec).                                     *)
(***************************************************************************)
\* C26: a tag operation (copy of bytes 176..183, or an explicit tag value)
\* without force passes the vendor guard for every target whose manufacturer
\* id is an HP entry of the registry, 'HP Inc.' and 'Hewlett-Packard (HP)'
\* alike; the guard reads the id the target had when the call began, so a
\* call it rejects has copied nothing.
C26_HpFamilyAccepted ==
    /\ (TagBlockOp(args) /\ ~args.force /\ HpFamily(TargetImage(target_id)))
           => ~GuardRejection
    /\ GuardRejection => /\ ~HpFamily(TargetImage(target_id))
                         /\ mem[ObjNew] = mem[ObjSelf]

\* the working copy differs from the target inside the checksum-covered
\* region, whichever of the two windows is taken
CoveredRegionChanged ==
    SubSeq(mem[ObjNew], 1, 117) # SubSeq(mem[ObjSelf], 1, 117)

ValidationRejection ==
    raised = SystemExit("[ERROR] Post-patch CRC validation failed. Aborting write.")

\* C27: a call that no earlier check has rejected (an operation requested,
\* every range valid, the vendor guard satisfied) and whose copies changed a
\* byte of the covered region is not rejected at the final validation: it
\* has recomputed the checksum and returns the image; validation rejects a
\* call only when the covered region is unchanged.
C27_ChangedPatchReturns ==
    /\ (/\ pc = "done" /\ CoveredRegionChanged
        /\ raised.type \notin {"SystemExit", "ValueError"})
           => /\ raised = NoException
              /\ returned = mem[ObjNew]
              /\ StoredValue(returned)
                     = crc16_xmodem(SubSeq(returned, 1, DeclaredEnd(returned) + 1))
    /\ ValidationRejection => ~CoveredRegionChanged

\* the working copy once every copy is done and the checksum step is over
Patched == mem[ObjNew]

\* C28: when patch rewrites the checksum, the value at bytes 126..127 of the
\* result is the XMODEM CRC of the patched bytes over the window byte 0 of
\* the patched image declares, also when a copied range has changed the
\* coverage flag; and the checksum is rewritten exactly when the patched
\* image differs from the target inside that window: otherwise bytes
\* 126..127 are the target's.
C28_WindowOfPatchedImage ==
    (pc \in {"validate", "done"} /\ raised.type \notin {"SystemExit", "ValueError"}) =>
        LET last == DeclaredEnd(Patched)
        IN  IF SubSeq(Patched, 1, last + 1) # SubSeq(mem[ObjSelf], 1, last + 1)
            THEN StoredValue(Patched) = crc16_xmodem(SubSeq(Patched, 1, last + 1))
            ELSE StoredValue(Patched) = StoredValue(mem[ObjSelf])

\* every copy of the call is done and the checksum step is over, no check
\* having rejected the request: mem[ObjNew] is the image line 149 returns
Built ==
    pc \in {"validate", "done"} /\ raised.type \notin {"SystemExit", "ValueError"}

\* the offsets the --copy-range list of req covers
RangeOffsets(req) ==
    UNION {ParseRange(req.copy_range[j]).start..ParseRange(req.copy_range[j]).end :
              j \in {k \in 1..Len(req.copy_range) :
                        ParseRange(req.copy_range[k]).kind = "ok"}}

\* the offsets the named copies of req cover
NamedOffsets(req) ==
    (IF req.copy_vendor THEN 176..255 ELSE {})
    \cup (IF req.copy_hpt THEN 176..183 ELSE {})
    \cup (IF req.copy_mfgid THEN 117..118 ELSE {})
    \cup (IF req.copy_partnum THEN 128..145 ELSE {})

\* the offsets an explicit tag value covers, and the byte it puts at o
TagOffsets(req) == IF Len(req.set_hpt) = 4 THEN 176..183 ELSE {}

TagByte(req, o) == (<<72, 80, 84, 0>> \o req.set_hpt)[o - 175]

\* img has a byte at offset o, and it is that of other
SameByte(img, other, o) ==
    o < Len(img) /\ o < Len(other) /\ At(img, o) = At(other, o)

====
